---- MODULE Spec2Model ----
(***************************************************************************)
(* BlockDoc: the Document (article title / metadata / ordered blocks) and  *)
(* its block CRUD and reordering operations, together with the Block       *)
(* constructor that every stored block passes through.                     *)
(*                                                                         *)
(* JavaScript values are tagged tuples so that values of different         *)
(* JavaScript types can be compared: <<"str", s>>, <<"num", n>>,           *)
(* <<"bool", b>>, <<"obj", f>>, <<"null">>, <<"undefined">>.  A plain      *)
(* object is a function from its own keys to values.                       *)
(***************************************************************************)
EXTENDS Integers, Sequences, FiniteSets, TLC

VARIABLES
    article,  \* this.article of the document: [title, metadata, blocks]
    last,     \* the last call made on the document: operation, arguments, outcome
    pre,      \* this.article as it was when the last call started
    instance, \* the Block instance the last call handed back, if it handed one back
    given     \* the block data passed to addBlock so far, one call after the other

vars == <<article, last, pre, instance, given>>

\* Longest block list the model explores.
MaxBlocks == 3

----------------------------------------------------------------------------
(* JavaScript values *)

UNDEF == <<"undefined">>
NULL == <<"null">>
Str(s) == <<"str", s>>
Num(n) == <<"num", n>>
Bool(b) == <<"bool", b>>
Obj(o) == <<"obj", o>>

EmptyObj == [k \in {} |-> UNDEF]

\* o[k] on a plain data object: undefined when k is not a key of o
Get(o, k) == IF k \in DOMAIN o THEN o[k] ELSE UNDEF

\* a string computed at run time, given by the sequence of its pieces
StrOf(pieces) == <<"chars", pieces>>

\* !v
Falsy(v) == v \in {UNDEF, NULL, Str(""), StrOf(<<>>), Num(0), Bool(FALSE)}

\* { ...a, ...b }
Spread(a, b) == [k \in (DOMAIN a) \cup (DOMAIN b) |-> IF k \in DOMAIN b THEN b[k] ELSE a[k]]

\* outcome of a call: a returned value or a thrown Error
Ret(v) == <<"return", v>>
Throw(kind, detail) == <<"throw", kind, detail>>
IsThrow(r) == r[1] = "throw"
IsRet(r) == r[1] = "return"

Min(S) == CHOOSE x \in S : \A y \in S : x <= y

----------------------------------------------------------------------------
(* Block *)

ALLOWED_TYPES == {"text", "heading", "image", "code", "list", "quote", "embed", "divider"}

TYPE_REQUIREMENTS(t) ==
    CASE t = "heading" -> <<"level">>
      [] t = "code" -> <<"language">>
      [] t = "image" -> <<"url", "alt">>
      [] t = "list" -> <<"items", "listType">>
      [] OTHER -> <<>>

BaseKeys == {"id", "type", "content"}

\* members a Block instance inherits: this[key] is defined for them before any copy
BlockProtoKeys == {"constructor", "update", "toJSON", "toString", "valueOf", "hasOwnProperty"}

\* new Block with a required property tested for truthiness instead of === undefined
BlockConstruct_TruthyRequired(data) ==
    IF Falsy(Get(data, "id")) THEN Throw("MissingIdError", "")
    ELSE IF Falsy(Get(data, "type")) \/ Get(data, "type") \notin {Str(t) : t \in ALLOWED_TYPES}
    THEN Throw("InvalidTypeError", "")
    ELSE
      LET req == TYPE_REQUIREMENTS(Get(data, "type")[2])
          missing == {i \in 1..Len(req) : Falsy(Get(data, req[i]))}
          reqKeys == {req[i] : i \in 1..Len(req)}
          extraKeys == {k \in (DOMAIN data) \ BaseKeys : k \notin BlockProtoKeys}
      IN  IF missing # {} THEN Throw("MissingRequiredFieldError", req[Min(missing)])
          ELSE Ret(Obj([k \in BaseKeys \cup reqKeys \cup extraKeys |->
                          IF k = "content"
                          THEN (IF Falsy(Get(data, "content")) THEN Str("") ELSE data["content"])
                          ELSE data[k]]))

\* new Block(data): the thrown error, or the own properties of the instance
BlockConstruct(data) ==
    IF Falsy(Get(data, "id")) THEN Throw("MissingIdError", "")
    ELSE IF Falsy(Get(data, "type")) \/ Get(data, "type") \notin {Str(t) : t \in ALLOWED_TYPES}
    THEN Throw("InvalidTypeError", "")
    ELSE
      LET req == TYPE_REQUIREMENTS(Get(data, "type")[2])
          missing == {i \in 1..Len(req) : Get(data, req[i]) = UNDEF}
          reqKeys == {req[i] : i \in 1..Len(req)}
          extraKeys == {k \in (DOMAIN data) \ BaseKeys : k \notin BlockProtoKeys}
      IN  IF missing # {} THEN Throw("MissingRequiredFieldError", req[Min(missing)])
          ELSE Ret(Obj([k \in BaseKeys \cup reqKeys \cup extraKeys |->
                          IF k = "content"
                          THEN (IF Falsy(Get(data, "content")) THEN Str("") ELSE data["content"])
                          ELSE data[k]]))

\* toJSON that leaves out the own properties holding a falsy value
BlockToJSON_SkipsFalsy(b) ==
    [k \in BaseKeys \cup {k2 \in DOMAIN b : k2 \notin BaseKeys /\ ~Falsy(b[k2])} |-> b[k]]

\* block.toJSON(): id, type, content, then every other own property
BlockToJSON(b) ==
    [k \in BaseKeys \cup {k2 \in DOMAIN b : k2 \notin BaseKeys} |-> b[k]]

\* update that applies every key, id and type included
BlockUpdate_AllKeys(b, updates) ==
    [k \in (DOMAIN b) \cup (DOMAIN updates) |->
        IF k \in DOMAIN updates THEN updates[k] ELSE b[k]]

\* block.update(updates): the own properties afterwards; id and type are left out
BlockUpdate(b, updates) ==
    LET allowedUpdates == (DOMAIN updates) \ {"id", "type"}
    IN  [k \in (DOMAIN b) \cup allowedUpdates |->
            IF k \in allowedUpdates THEN updates[k] ELSE b[k]]

----------------------------------------------------------------------------
(* Array helpers, 0-based as in the source *)

\* blocks.findIndex(block => block.id === id)
FindIndex(blocks, id) ==
    LET hits == {i \in 1..Len(blocks) : blocks[i]["id"] = id}
    IN  IF hits = {} THEN 0 - 1 ELSE Min(hits) - 1

\* blocks.splice(start, 0, item): the array afterwards
SpliceInsert(blocks, start, item) ==
    LET n == Len(blocks)
        at == IF start < 0 THEN (IF n + start < 0 THEN 0 ELSE n + start)
              ELSE IF start > n THEN n ELSE start
    IN  SubSeq(blocks, 1, at) \o <<item>> \o SubSeq(blocks, at + 1, n)

\* blocks.splice(index, 1): the array afterwards
SpliceRemove(blocks, index) ==
    SubSeq(blocks, 1, index) \o SubSeq(blocks, index + 2, Len(blocks))

----------------------------------------------------------------------------
(* Document operations as functions of the block array: the array afterwards
   and the outcome of the call *)

\* getBlock(id)
GetBlock(blocks, id) ==
    LET index == FindIndex(blocks, id)
    IN  IF index = 0 - 1 THEN NULL ELSE Obj(blocks[index + 1])

(* addBlock and insertBlock also tell whether the array entry they stored is the
   very object they return (same): both store block.toJSON(), a new object. *)

\* addBlock with the Block built before the duplicate check
AddBlockOp_ConstructFirst(blocks, data) ==
    LET b == BlockConstruct(data)
    IN  IF IsThrow(b) THEN [same |-> FALSE, blocks |-> blocks, result |-> b]
        ELSE IF ~Falsy(GetBlock(blocks, Get(data, "id")))
        THEN [same |-> FALSE, blocks |-> blocks, result |-> Throw("DuplicateIdError", "")]
        ELSE [same |-> FALSE, blocks |-> Append(blocks, BlockToJSON(b[2][2])), result |-> b]

\* addBlock that pushes the Block instance itself and returns it
AddBlockOp_PushInstance(blocks, data) ==
    IF ~Falsy(GetBlock(blocks, Get(data, "id")))
    THEN [same |-> FALSE, blocks |-> blocks, result |-> Throw("DuplicateIdError", "")]
    ELSE LET b == BlockConstruct(data)
         IN  IF IsThrow(b) THEN [same |-> FALSE, blocks |-> blocks, result |-> b]
             ELSE [same |-> TRUE, blocks |-> Append(blocks, BlockToJSON(b[2][2])), result |-> b]

\* addBlock(blockData)
AddBlockOp(blocks, data) ==
    IF ~Falsy(GetBlock(blocks, Get(data, "id")))
    THEN [same |-> FALSE, blocks |-> blocks, result |-> Throw("DuplicateIdError", "")]
    ELSE LET b == BlockConstruct(data)
         IN  IF IsThrow(b) THEN [same |-> FALSE, blocks |-> blocks, result |-> b]
             ELSE [same |-> FALSE, blocks |-> Append(blocks, BlockToJSON(b[2][2])), result |-> b]

\* insertBlock with the raw data spliced in before the Block is built
InsertBlockOp_SpliceFirst(blocks, data, position) ==
    IF ~Falsy(GetBlock(blocks, Get(data, "id")))
    THEN [same |-> FALSE, blocks |-> blocks, result |-> Throw("DuplicateIdError", "")]
    ELSE LET b == BlockConstruct(data)
         IN  IF IsThrow(b) THEN [same |-> FALSE, blocks |-> SpliceInsert(blocks, position, data), result |-> b]
             ELSE [same |-> FALSE, blocks |-> SpliceInsert(blocks, position, BlockToJSON(b[2][2])), result |-> b]

\* insertBlock with the bounds test of moveBlock added
InsertBlockOp_BoundsChecked(blocks, data, position) ==
    IF ~Falsy(GetBlock(blocks, Get(data, "id")))
    THEN [same |-> FALSE, blocks |-> blocks, result |-> Throw("DuplicateIdError", "")]
    ELSE LET b == BlockConstruct(data)
         IN  IF IsThrow(b) THEN [same |-> FALSE, blocks |-> blocks, result |-> b]
             ELSE IF position < 0 \/ position > Len(blocks)
             THEN [same |-> FALSE, blocks |-> blocks, result |-> Throw("InvalidPositionError", "")]
             ELSE [same |-> FALSE, blocks |-> SpliceInsert(blocks, position, BlockToJSON(b[2][2])), result |-> b]

\* insertBlock(blockData, position)
InsertBlockOp(blocks, data, position) ==
    IF ~Falsy(GetBlock(blocks, Get(data, "id")))
    THEN [same |-> FALSE, blocks |-> blocks, result |-> Throw("DuplicateIdError", "")]
    ELSE LET b == BlockConstruct(data)
         IN  IF IsThrow(b) THEN [same |-> FALSE, blocks |-> blocks, result |-> b]
             ELSE [same |-> FALSE, blocks |-> SpliceInsert(blocks, position, BlockToJSON(b[2][2])), result |-> b]

\* updateBlock storing the merged object without constructing a Block from it
UpdateBlockOp_Unvalidated(blocks, id, updates) ==
    LET index == FindIndex(blocks, id)
    IN  IF index = 0 - 1
        THEN [blocks |-> blocks, result |-> Throw("BlockNotFoundError", "")]
        ELSE LET stored == Spread(blocks[index + 1], updates)
             IN  [blocks |-> [blocks EXCEPT ![index + 1] = stored],
                  result |-> Ret(Obj(stored))]

\* updateBlock with the spread the other way round: { ...updates, ...currentBlock }
UpdateBlockOp_StoredWins(blocks, id, updates) ==
    LET index == FindIndex(blocks, id)
    IN  IF index = 0 - 1
        THEN [blocks |-> blocks, result |-> Throw("BlockNotFoundError", "")]
        ELSE LET currentBlock == blocks[index + 1]
                 updatedBlock == Spread(updates, currentBlock)
                 b == BlockConstruct(updatedBlock)
             IN  IF IsThrow(b) THEN [blocks |-> blocks, result |-> b]
                 ELSE LET stored == BlockToJSON(b[2][2])
                      IN  [blocks |-> [blocks EXCEPT ![index + 1] = stored],
                           result |-> Ret(Obj(stored))]

\* updateBlock(id, updates)
UpdateBlockOp(blocks, id, updates) ==
    LET index == FindIndex(blocks, id)
    IN  IF index = 0 - 1
        THEN [blocks |-> blocks, result |-> Throw("BlockNotFoundError", "")]
        ELSE LET currentBlock == blocks[index + 1]
                 updatedBlock == Spread(currentBlock, updates)
                 b == BlockConstruct(updatedBlock)
             IN  IF IsThrow(b) THEN [blocks |-> blocks, result |-> b]
                 ELSE LET stored == BlockToJSON(b[2][2])
                      IN  [blocks |-> [blocks EXCEPT ![index + 1] = stored],
                           result |-> Ret(Obj(stored))]

\* removeBlock with splice(index): everything from index on is removed
RemoveBlockOp_SpliceToEnd(blocks, id) ==
    LET index == FindIndex(blocks, id)
    IN  IF index = 0 - 1
        THEN [blocks |-> blocks, result |-> Ret(Bool(FALSE))]
        ELSE [blocks |-> SubSeq(blocks, 1, index), result |-> Ret(Bool(TRUE))]

\* removeBlock(id)
RemoveBlockOp(blocks, id) ==
    LET index == FindIndex(blocks, id)
    IN  IF index = 0 - 1
        THEN [blocks |-> blocks, result |-> Ret(Bool(FALSE))]
        ELSE [blocks |-> SpliceRemove(blocks, index), result |-> Ret(Bool(TRUE))]

\* moveBlock with the bound test newPosition > length
MoveBlockOp_OffByOne(blocks, id, newPosition) ==
    LET index == FindIndex(blocks, id)
    IN  IF index = 0 - 1
        THEN [blocks |-> blocks, result |-> Ret(Bool(FALSE))]
        ELSE IF newPosition < 0 \/ newPosition > Len(blocks)
        THEN [blocks |-> blocks, result |-> Throw("InvalidPositionError", "")]
        ELSE [blocks |-> SpliceInsert(SpliceRemove(blocks, index), newPosition, blocks[index + 1]),
              result |-> Ret(Bool(TRUE))]

\* moveBlock that shifts the target down by one when the block moves forward
MoveBlockOp_AdjustedIndex(blocks, id, newPosition) ==
    LET index == FindIndex(blocks, id)
    IN  IF index = 0 - 1
        THEN [blocks |-> blocks, result |-> Ret(Bool(FALSE))]
        ELSE IF newPosition < 0 \/ newPosition >= Len(blocks)
        THEN [blocks |-> blocks, result |-> Throw("InvalidPositionError", "")]
        ELSE [blocks |-> SpliceInsert(SpliceRemove(blocks, index),
                                      IF index < newPosition THEN newPosition - 1 ELSE newPosition,
                                      blocks[index + 1]),
              result |-> Ret(Bool(TRUE))]

\* moveBlock with the position test before the lookup
MoveBlockOp_PositionFirst(blocks, id, newPosition) ==
    LET index == FindIndex(blocks, id)
    IN  IF newPosition < 0 \/ newPosition >= Len(blocks)
        THEN [blocks |-> blocks, result |-> Throw("InvalidPositionError", "")]
        ELSE IF index = 0 - 1
        THEN [blocks |-> blocks, result |-> Ret(Bool(FALSE))]
        ELSE [blocks |-> SpliceInsert(SpliceRemove(blocks, index), newPosition, blocks[index + 1]),
              result |-> Ret(Bool(TRUE))]

\* moveBlock(id, newPosition)
MoveBlockOp(blocks, id, newPosition) ==
    LET index == FindIndex(blocks, id)
    IN  IF index = 0 - 1
        THEN [blocks |-> blocks, result |-> Ret(Bool(FALSE))]
        ELSE IF newPosition < 0 \/ newPosition >= Len(blocks)
        THEN [blocks |-> blocks, result |-> Throw("InvalidPositionError", "")]
        ELSE [blocks |-> SpliceInsert(SpliceRemove(blocks, index), newPosition, blocks[index + 1]),
              result |-> Ret(Bool(TRUE))]

----------------------------------------------------------------------------
(* JSON text: the tree JSON.stringify writes, which JSON.parse reads back *)

\* JSON.stringify of a plain object: a property whose value is undefined is not written
JSONStringifyObject(o) ==
    [k \in {k2 \in DOMAIN o : o[k2] # UNDEF} |-> o[k]]

\* document.toString(): JSON.stringify({ article: this.article }, null, 2)
DocToString(a) ==
    <<"json",
      [article |->
         Obj(JSONStringifyObject(
           [title |-> a.title,
            metadata |-> IF a.metadata[1] = "obj"
                         THEN Obj(JSONStringifyObject(a.metadata[2])) ELSE a.metadata,
            blocks |-> <<"arr", [i \in 1..Len(a.blocks) |-> JSONStringifyObject(a.blocks[i])]>>]))]>>

\* JSON.parse(text)
JSONParse(text) == text[2]

----------------------------------------------------------------------------
(* Document construction *)

\* the constructor assigning the given blocks to article.blocks as they are
AddAll_PushRaw(blocks, datas) ==
    [blocks |-> blocks \o datas, result |-> Ret(UNDEF)]

\* blocks.forEach((block) => this.addBlock(block)): stops at the first throw
RECURSIVE AddAll(_, _)
AddAll(blocks, datas) ==
    IF datas = <<>> THEN [blocks |-> blocks, result |-> Ret(UNDEF)]
    ELSE LET r == AddBlockOp(blocks, Head(datas))
         IN  IF IsThrow(r.result) THEN r ELSE AddAll(r.blocks, Tail(datas))

\* new BlockDocDocument({ title, metadata = {}, blocks = [] })
DocConstruct(title, metadata, blocks) ==
    LET md == IF metadata = UNDEF THEN Obj(EmptyObj) ELSE metadata
        bl == IF blocks = UNDEF THEN <<"arr", <<>>>> ELSE blocks
        r == IF ~Falsy(bl) /\ bl[1] = "arr" THEN AddAll(<<>>, bl[2])
             ELSE [blocks |-> <<>>, result |-> Ret(UNDEF)]
    IN  [article |-> [title |-> title, metadata |-> md, blocks |-> r.blocks],
         result |-> r.result]

\* fromJSON taking article.blocks as the blocks of the document, unchecked
FromJSON_AssignDirect(json) ==
    LET data == IF json[1] = "json" THEN JSONParse(json) ELSE json[2]
    IN  IF Falsy(Get(data, "article"))
        THEN [article |-> EmptyObj, result |-> Throw("MissingArticleError", "")]
        ELSE LET art == data["article"][2]
                 md == Get(art, "metadata")
                 bl == Get(art, "blocks")
             IN  [article |-> [title |-> Get(art, "title"),
                               metadata |-> IF Falsy(md) THEN Obj(EmptyObj) ELSE md,
                               blocks |-> IF Falsy(bl) THEN <<>> ELSE bl[2]],
                  result |-> Ret(UNDEF)]

\* BlockDocDocument.fromJSON(json)
FromJSON(json) ==
    LET data == IF json[1] = "json" THEN JSONParse(json) ELSE json[2]
    IN  IF Falsy(Get(data, "article"))
        THEN [article |-> EmptyObj, result |-> Throw("MissingArticleError", "")]
        ELSE LET art == data["article"][2]
                 md == Get(art, "metadata")
                 bl == Get(art, "blocks")
             IN  DocConstruct(Get(art, "title"),
                              IF Falsy(md) THEN Obj(EmptyObj) ELSE md,
                              IF Falsy(bl) THEN <<"arr", <<>>>> ELSE bl)

----------------------------------------------------------------------------
(* Inputs *)

IdArgs == {Str("a"), Str("b"), Str("c")}

TextData(id) == [id |-> id, type |-> Str("text"), content |-> Str("hi")]
HeadingData(id) == [id |-> id, type |-> Str("heading"), level |-> Num(2)]
HeadingNoLevelData(id) == [id |-> id, type |-> Str("heading"), content |-> Str("hi")]
NoIdData == [type |-> Str("text"), content |-> Str("hi")]

BlockDataArgs ==
    {TextData(id) : id \in IdArgs} \cup {HeadingData(id) : id \in IdArgs}
      \cup {HeadingNoLevelData(Str("c")), NoIdData}

UpdateArgs ==
    { [type |-> Str("heading")],
      [id |-> Str("b")],
      [type |-> Str("heading"), level |-> Num(2), content |-> Str("")] }

PositionArgs == (0 - 1)..MaxBlocks

TitleArgs == {Str("T")}
MetadataArgs == {UNDEF, Obj([author |-> Str("A"), tags |-> UNDEF])}
InitialBlocksArgs ==
    { UNDEF,
      <<"arr", <<TextData(Str("a")), HeadingData(Str("b"))>>>>,
      <<"arr", <<TextData(Str("a")), TextData(Str("a"))>>>> }

----------------------------------------------------------------------------
(* The document as a state machine *)

Call(op, id, data, pos, result) ==
    [op |-> op, id |-> id, data |-> data, pos |-> pos, result |-> result]

\* no Block instance was handed back
NoInstance == [live |-> FALSE, props |-> EmptyObj, at |-> 0, fresh |-> FALSE, before |-> EmptyObj]

(* The Block instance a call returned: its own properties; at, the 1-based place
   of the array entry that is this very object (0 when no entry is); fresh, until
   update() is called on it; before, its properties before the last update(). *)
Returned(r, blocks) ==
    IF IsThrow(r.result) THEN NoInstance
    ELSE [live |-> TRUE, props |-> r.result[2][2],
          at |-> IF r.same THEN FindIndex(blocks, r.result[2][2]["id"]) + 1 ELSE 0,
          fresh |-> TRUE, before |-> EmptyObj]

Init ==
    \E title \in TitleArgs, metadata \in MetadataArgs, blocks \in InitialBlocksArgs :
        LET d == DocConstruct(title, metadata, blocks)
        IN  /\ IsRet(d.result)
            /\ article = d.article
            /\ pre = d.article
            /\ last = Call("constructor", UNDEF, EmptyObj, 0, d.result)
            /\ instance = NoInstance
            /\ given = <<>>

AddBlockCall(data) ==
    /\ Len(article.blocks) < MaxBlocks
    /\ LET r == AddBlockOp(article.blocks, data)
       IN  /\ article' = [article EXCEPT !.blocks = r.blocks]
           /\ last' = Call("addBlock", UNDEF, data, 0, r.result)
           /\ instance' = Returned(r, r.blocks)
    /\ pre' = article

AddBlock(data) ==
    /\ AddBlockCall(data)
    /\ UNCHANGED given

InsertBlock(data, position) ==
    /\ Len(article.blocks) < MaxBlocks
    /\ LET r == InsertBlockOp(article.blocks, data, position)
       IN  /\ article' = [article EXCEPT !.blocks = r.blocks]
           /\ last' = Call("insertBlock", UNDEF, data, position, r.result)
           /\ instance' = Returned(r, r.blocks)
    /\ pre' = article
    /\ UNCHANGED given

GetBlockCall(id) ==
    /\ article' = article
    /\ last' = Call("getBlock", id, EmptyObj, 0, Ret(GetBlock(article.blocks, id)))
    /\ pre' = article
    /\ instance' = NoInstance
    /\ UNCHANGED given

UpdateBlock(id, updates) ==
    /\ LET r == UpdateBlockOp(article.blocks, id, updates)
       IN  /\ article' = [article EXCEPT !.blocks = r.blocks]
           /\ last' = Call("updateBlock", id, updates, 0, r.result)
    /\ pre' = article
    /\ instance' = NoInstance
    /\ UNCHANGED given

RemoveBlock(id) ==
    /\ LET r == RemoveBlockOp(article.blocks, id)
       IN  /\ article' = [article EXCEPT !.blocks = r.blocks]
           /\ last' = Call("removeBlock", id, EmptyObj, 0, r.result)
    /\ pre' = article
    /\ instance' = NoInstance
    /\ UNCHANGED given

MoveBlock(id, newPosition) ==
    /\ LET r == MoveBlockOp(article.blocks, id, newPosition)
       IN  /\ article' = [article EXCEPT !.blocks = r.blocks]
           /\ last' = Call("moveBlock", id, EmptyObj, newPosition, r.result)
    /\ pre' = article
    /\ instance' = NoInstance
    /\ UNCHANGED given

\* the document is written out with toString() and loaded back with fromJSON()
Reload ==
    /\ LET d == FromJSON(DocToString(article))
       IN  /\ article' = IF IsThrow(d.result) THEN article ELSE d.article
           /\ last' = Call("fromJSON", UNDEF, EmptyObj, 0, d.result)
    /\ pre' = article
    /\ instance' = NoInstance
    /\ UNCHANGED given

Next ==
    \/ \E data \in BlockDataArgs : AddBlock(data)
    \/ \E data \in BlockDataArgs, position \in PositionArgs : InsertBlock(data, position)
    \/ \E id \in IdArgs : GetBlockCall(id)
    \/ \E id \in IdArgs, updates \in UpdateArgs : UpdateBlock(id, updates)
    \/ \E id \in IdArgs : RemoveBlock(id)
    \/ \E id \in IdArgs, newPosition \in PositionArgs : MoveBlock(id, newPosition)
    \/ Reload

Spec == Init /\ [][Next]_vars

----------------------------------------------------------------------------
(* Vocabulary of the properties *)

HasId(blocks, id) == \E i \in 1..Len(blocks) : blocks[i]["id"] = id

\* 1-based position of the first block carrying id
FirstWithId(blocks, id) ==
    CHOOSE i \in 1..Len(blocks) :
        /\ blocks[i]["id"] = id
        /\ \A j \in 1..(i - 1) : blocks[j]["id"] # id

\* the sequence without its i-th element
Without(seq, i) == [j \in 1..(Len(seq) - 1) |-> IF j < i THEN seq[j] ELSE seq[j + 1]]

\* deep equality that ignores properties whose value is undefined
Defined(o) == [k \in {k2 \in DOMAIN o : o[k2] # UNDEF} |-> o[k]]

DeepEqual(a1, a2) ==
    /\ a1.title = a2.title
    /\ Defined(a1.metadata[2]) = Defined(a2.metadata[2])
    /\ Len(a1.blocks) = Len(a2.blocks)
    /\ \A i \in 1..Len(a1.blocks) : Defined(a1.blocks[i]) = Defined(a2.blocks[i])

MoveOutOfRange == last.pos < 0 \/ last.pos > Len(pre.blocks) - 1

----------------------------------------------------------------------------
(* Properties *)

\* C1: block ids are unique within the document: no two entries of
\* article.blocks carry the same id, whatever operations were applied.
C1_UniqueIds ==
    \A i, j \in 1..Len(article.blocks) :
        i # j => article.blocks[i]["id"] # article.blocks[j]["id"]

\* C2: addBlock(data) fails with the duplicate-id error whenever a stored block
\* already has data.id, before any construction error, and leaves the blocks
\* as they were.
C2_AddDuplicateFails ==
    (last.op = "addBlock" /\ HasId(pre.blocks, Get(last.data, "id")))
        => (last.result = Throw("DuplicateIdError", "") /\ article.blocks = pre.blocks)

C2_Witness ==
    /\ last.op = "addBlock"
    /\ HasId(pre.blocks, Get(last.data, "id"))
    /\ IsThrow(BlockConstruct(last.data))
    /\ last.result = Throw("DuplicateIdError", "")

\* C3: serialization round trip: fromJSON(D.toString()) succeeds and yields a
\* document whose toJSON() deep-equals D.toJSON().
C3_RoundTrip ==
    last.op = "fromJSON" => (IsRet(last.result) /\ DeepEqual(article, pre))

\* C4 as stated: moveBlock(id, p) with p outside [0, len-1] fails with the
\* invalid-position error and leaves the order unchanged, for every id.
C4_MoveOutOfRangeFailsForEveryId ==
    (last.op = "moveBlock" /\ MoveOutOfRange)
        => (last.result = Throw("InvalidPositionError", "") /\ article.blocks = pre.blocks)

\* C4 amended: moveBlock(id, p) with p outside [0, len-1] fails with the
\* invalid-position error and leaves the order unchanged whenever some stored
\* block has the given id.
C4_MoveOutOfRangeFailsForStoredId ==
    (last.op = "moveBlock" /\ MoveOutOfRange /\ HasId(pre.blocks, last.id))
        => (last.result = Throw("InvalidPositionError", "") /\ article.blocks = pre.blocks)

C4_Witness ==
    /\ last.op = "moveBlock"
    /\ HasId(pre.blocks, last.id)
    /\ last.pos = Len(pre.blocks)
    /\ last.result = Throw("InvalidPositionError", "")

\* C5: for a stored id and 0 <= p <= len-1, moveBlock returns true, the moved
\* block is exactly at index p, the length is unchanged and the other blocks
\* keep their relative order.
C5_MoveWithinRange ==
    (last.op = "moveBlock" /\ HasId(pre.blocks, last.id) /\ ~MoveOutOfRange)
        => LET from == FirstWithId(pre.blocks, last.id)
           IN  /\ last.result = Ret(Bool(TRUE))
               /\ Len(article.blocks) = Len(pre.blocks)
               /\ article.blocks[last.pos + 1] = pre.blocks[from]
               /\ Without(article.blocks, last.pos + 1) = Without(pre.blocks, from)

C5_Witness ==
    /\ last.op = "moveBlock"
    /\ last.result = Ret(Bool(TRUE))
    /\ Len(pre.blocks) = 3
    /\ FirstWithId(pre.blocks, last.id) = 1
    /\ last.pos = 2
    /\ article.blocks = <<pre.blocks[2], pre.blocks[3], pre.blocks[1]>>

\* C6: moveBlock(id, p) returns false and changes nothing when no stored block
\* has the id, whatever p is.
C6_MoveUnknownId ==
    (last.op = "moveBlock" /\ ~HasId(pre.blocks, last.id))
        => (last.result = Ret(Bool(FALSE)) /\ article = pre)

C6_Witness ==
    /\ last.op = "moveBlock"
    /\ ~HasId(pre.blocks, last.id)
    /\ Len(pre.blocks) >= 1
    /\ MoveOutOfRange
    /\ last.result = Ret(Bool(FALSE))

\* C7: updateBlock(id, updates) on a stored id replaces the entry at the same
\* index with the projection of a Block built from the stored data merged with
\* updates (keys of updates win, other keys keep the stored value), returns that
\* entry and leaves the length and every other entry unchanged.
C7_UpdateReplacesWithMerged ==
    (last.op = "updateBlock" /\ HasId(pre.blocks, last.id))
        => LET at == FirstWithId(pre.blocks, last.id)
               stored == pre.blocks[at]
               merged == [k \in (DOMAIN stored) \cup (DOMAIN last.data) |->
                            IF k \in DOMAIN last.data THEN last.data[k] ELSE stored[k]]
               built == BlockConstruct(merged)
           IN  IsRet(built)
                 => /\ Len(article.blocks) = Len(pre.blocks)
                    /\ article.blocks[at] = BlockToJSON(built[2][2])
                    /\ last.result = Ret(Obj(article.blocks[at]))
                    /\ \A j \in 1..Len(pre.blocks) : j # at => article.blocks[j] = pre.blocks[j]

C7_Witness ==
    /\ last.op = "updateBlock"
    /\ IsRet(last.result)
    /\ Len(pre.blocks) = 3
    /\ HasId(pre.blocks, last.id)
    /\ LET at == FirstWithId(pre.blocks, last.id)
       IN  /\ at = 2
           /\ pre.blocks[at]["type"] = Str("text")
           /\ article.blocks[at]["type"] = Str("heading")
           /\ article.blocks[at]["level"] = Num(2)
           /\ article.blocks[at]["id"] = pre.blocks[at]["id"]

\* C8: a failed addBlock, insertBlock, updateBlock or moveBlock leaves title,
\* metadata and blocks exactly as they were before the call.
C8_FailedMutationChangesNothing ==
    (last.op \in {"addBlock", "insertBlock", "updateBlock", "moveBlock"} /\ IsThrow(last.result))
        => article = pre

C8_Witness ==
    /\ last.op = "insertBlock"
    /\ last.result = Throw("MissingRequiredFieldError", "level")
    /\ Len(pre.blocks) >= 1
    /\ article = pre

\* C9: removeBlock(id) returns true exactly when a stored block has the id; then
\* the first such entry alone is removed and the rest keep their order;
\* otherwise it returns false, raises nothing and changes nothing.
C9_RemoveFirstMatch ==
    last.op = "removeBlock"
        => /\ last.result = Ret(Bool(HasId(pre.blocks, last.id)))
           /\ article.title = pre.title
           /\ article.metadata = pre.metadata
           /\ IF HasId(pre.blocks, last.id)
              THEN /\ Len(article.blocks) = Len(pre.blocks) - 1
                   /\ article.blocks = Without(pre.blocks, FirstWithId(pre.blocks, last.id))
              ELSE article.blocks = pre.blocks

C9_Witness ==
    /\ last.op = "removeBlock"
    /\ last.result = Ret(Bool(TRUE))
    /\ Len(pre.blocks) = 3
    /\ FirstWithId(pre.blocks, last.id) = 1
    /\ article.blocks = <<pre.blocks[2], pre.blocks[3]>>

\* C10: after removeBlock(id) returns true, getBlock(id) returns null; and
\* getBlock(id) is non-null exactly when some stored entry has that id.
C10_RemovedIdNoLongerResolves ==
    /\ \A id \in IdArgs : (GetBlock(article.blocks, id) # NULL) <=> HasId(article.blocks, id)
    /\ (last.op = "removeBlock" /\ last.result = Ret(Bool(TRUE)))
          => GetBlock(article.blocks, last.id) = NULL

\* C11: insertBlock(data, p) applies the checks of addBlock and no bounds check;
\* on success the new entry is at index p when 0 <= p <= len, at the end when
\* p > len, at index max(len + p, 0) when p < 0; the length grows by one and
\* the existing entries keep their order.
C11_InsertAtSplicePosition ==
    last.op = "insertBlock"
        => LET n == Len(pre.blocks)
               p == last.pos
               asAdd == AddBlockOp(pre.blocks, last.data)
               at == IF p < 0 THEN (IF n + p > 0 THEN n + p ELSE 0)
                     ELSE IF p > n THEN n ELSE p
           IN  /\ last.result = asAdd.result
               /\ IF IsThrow(asAdd.result) THEN article = pre
                  ELSE /\ Len(article.blocks) = n + 1
                       /\ article.blocks[at + 1] = asAdd.blocks[n + 1]
                       /\ Without(article.blocks, at + 1) = pre.blocks

C11_Witness ==
    /\ last.op = "insertBlock"
    /\ IsRet(last.result)
    /\ Len(pre.blocks) = 2
    /\ last.pos = 0 - 1
    /\ article.blocks[2]["id"] = last.data["id"]
    /\ article.blocks[1] = pre.blocks[1]
    /\ article.blocks[3] = pre.blocks[2]

----------------------------------------------------------------------------
(* A Block on its own: built from data, projected with toJSON(), rebuilt from
   its projection, changed with update(). No document is involved. *)

\* the object with no key or with the one key k, valued in V
Pick(k, V) == {EmptyObj} \cup {[x \in {k} |-> v] : v \in V}

IdParts == Pick("id", {Str(""), Str("a")})

TypeParts == Pick("type", {Str(t) : t \in ALLOWED_TYPES \cup {"bogus", ""}})

ContentParts == Pick("content", {Str("hi")})

ItemsArg == <<"arr", <<Str("x")>>>>

\* required and additional properties, present, missing, undefined, null or empty
FieldParts ==
    { EmptyObj,
      [level |-> Num(2)], [level |-> UNDEF], [level |-> NULL],
      [language |-> Str("")], [language |-> Str("js"), customProp |-> Str("v")],
      [url |-> Str("u")], [alt |-> Str("t")], [url |-> Str("u"), alt |-> Str("")],
      [url |-> UNDEF, alt |-> UNDEF],
      [items |-> ItemsArg], [listType |-> Str("ordered")],
      [items |-> ItemsArg, listType |-> Str("")],
      [customProp |-> UNDEF], [customProp |-> Str("v"), caption |-> Str("c")],
      [toJSON |-> Str("x")], [level |-> Num(2), update |-> Str("x")] }

BlockCtorArgs ==
    { Spread(Spread(i, t), Spread(c, f)) :
        i \in IdParts, t \in TypeParts, c \in ContentParts, f \in FieldParts }

BlockUpdateArgs ==
    { [id |-> Str("z"), type |-> Str("heading"), content |-> Str("new")],
      [level |-> UNDEF],
      [customProp |-> Str("w")],
      [content |-> Str(""), language |-> Str("py")] }

EmptyArticle == DocConstruct(Str("T"), UNDEF, UNDEF).article

\* block data is at hand, nothing has been called on it yet
BlockInit ==
    /\ article = EmptyArticle
    /\ pre = EmptyArticle
    /\ given = <<>>
    /\ instance = NoInstance
    /\ \E data \in BlockCtorArgs : last = Call("data", UNDEF, data, 0, Ret(UNDEF))

\* new Block(data)
BlockNew ==
    /\ last.op = "data"
    /\ LET b == BlockConstruct(last.data)
       IN  /\ last' = Call("new Block", UNDEF, last.data, 0, b)
           /\ instance' = Returned([result |-> b, same |-> FALSE], <<>>)
    /\ UNCHANGED <<article, pre, given>>

\* block.toJSON() on the instance at hand
BlockToJSONCall ==
    /\ instance.live
    /\ last' = Call("Block.toJSON", UNDEF, EmptyObj, 0, Ret(Obj(BlockToJSON(instance.props))))
    /\ UNCHANGED <<article, pre, given, instance>>

\* new Block(block.toJSON()) on an instance that update() has not touched
BlockRebuild ==
    /\ instance.live
    /\ instance.fresh
    /\ LET data == BlockToJSON(instance.props)
           b == BlockConstruct(data)
       IN  /\ last' = Call("new Block(block.toJSON())", UNDEF, data, 0, b)
           /\ instance' = Returned([result |-> b, same |-> FALSE], <<>>)
    /\ UNCHANGED <<article, pre, given>>

(* block.update(updates) on the instance at hand; the array entry that is the
   same object, if there is one, changes with it *)
InstanceUpdate(updates) ==
    /\ instance.live
    /\ LET props == BlockUpdate(instance.props, updates)
       IN  /\ instance' = [instance EXCEPT !.props = props, !.fresh = FALSE,
                                           !.before = instance.props]
           /\ last' = Call("Block.update", UNDEF, updates, 0, Ret(Obj(props)))
           /\ article' = IF instance.at = 0 THEN article
                         ELSE [article EXCEPT !.blocks[instance.at] = BlockToJSON(props)]
    /\ pre' = article
    /\ UNCHANGED given

BlockNext ==
    \/ BlockNew
    \/ BlockToJSONCall
    \/ BlockRebuild
    \/ \E updates \in BlockUpdateArgs : InstanceUpdate(updates)

BlockSpec == BlockInit /\ [][BlockNext]_vars

----------------------------------------------------------------------------
(* Claims about a Block on its own *)

BlockBuilt == last.op \in {"new Block", "new Block(block.toJSON())"}

\* the required fields of each type, in the order they are listed
RequiredFields(t) ==
    IF t = "heading" THEN <<"level">>
    ELSE IF t = "code" THEN <<"language">>
    ELSE IF t = "image" THEN <<"url", "alt">>
    ELSE IF t = "list" THEN <<"items", "listType">>
    ELSE <<>>

EightTypes == {"text", "heading", "image", "code", "list", "quote", "embed", "divider"}

(* C12: new Block(data) succeeds exactly when id is non-empty, type is one of the
   eight allowed types and every required field of the type is not undefined;
   otherwise it fails with the first error that applies, in the order missing
   id, invalid type, missing required field (the fields in their listed order).
   An empty string for a required field is accepted. *)
C12_ConstructionOutcome ==
    BlockBuilt
        => LET d == last.data
               idOk == "id" \in DOMAIN d /\ d["id"] \notin {UNDEF, NULL, Str("")}
               typeOk == "type" \in DOMAIN d /\ d["type"] \in {Str(t) : t \in EightTypes}
               req == RequiredFields(d["type"][2])
               absent == {i \in 1..Len(req) : req[i] \notin DOMAIN d \/ d[req[i]] = UNDEF}
           IN  IF ~idOk THEN last.result = Throw("MissingIdError", "")
               ELSE IF ~typeOk THEN last.result = Throw("InvalidTypeError", "")
               ELSE IF absent # {}
               THEN last.result = Throw("MissingRequiredFieldError", req[Min(absent)])
               ELSE IsRet(last.result)

C12_Witness ==
    /\ last.op = "new Block"
    /\ IsRet(last.result)
    /\ last.data["type"] = Str("image")
    /\ last.data["alt"] = Str("")

(* C13: block.update(partial) leaves id and type as they were, sets every other
   key of partial on the block without validating required fields again, keeps
   the remaining properties, and returns the block itself. *)
C13_UpdateKeepsIdAndType ==
    last.op = "Block.update"
        => LET b == instance.before
               a == instance.props
               u == last.data
           IN  /\ instance.live
               /\ a["id"] = b["id"]
               /\ a["type"] = b["type"]
               /\ \A k \in (DOMAIN u) \ {"id", "type"} : k \in DOMAIN a /\ a[k] = u[k]
               /\ \A k \in (DOMAIN b) \ (DOMAIN u) : k \in DOMAIN a /\ a[k] = b[k]
               /\ DOMAIN a = (DOMAIN b) \cup ((DOMAIN u) \ {"id", "type"})
               /\ last.result = Ret(Obj(a))

C13_Witness ==
    /\ last.op = "Block.update"
    /\ last.data = [id |-> Str("z"), type |-> Str("heading"), content |-> Str("new")]
    /\ instance.before["type"] = Str("text")
    /\ instance.props["id"] = Str("a")
    /\ instance.props["type"] = Str("text")
    /\ instance.props["content"] = Str("new")

(* C14: a Block rebuilt from the projection of an accepted Block is accepted and
   projects to the same plain object, and the projection asked for again on the
   unchanged rebuilt Block is that object too. *)
C14_ProjectionRoundTrip ==
    last.op = "new Block(block.toJSON())"
        => /\ IsRet(last.result)
           /\ BlockToJSON(last.result[2][2]) = last.data
           /\ BlockToJSON(instance.props) = last.data

C14_Witness ==
    /\ last.op = "new Block(block.toJSON())"
    /\ IsRet(last.result)
    /\ last.data["type"] = Str("code")
    /\ last.data["language"] = Str("")
    /\ instance.props["content"] = Str("")

(* C15: every key of the constructing data other than id, type and content is an
   own attribute of the constructed Block with the value the data gave it, and
   toJSON() carries it unchanged. *)
C15_EveryExtraKeyCopied ==
    (last.op = "new Block" /\ IsRet(last.result))
        => \A k \in (DOMAIN last.data) \ {"id", "type", "content"} :
              /\ k \in DOMAIN instance.props
              /\ instance.props[k] = last.data[k]
              /\ k \in DOMAIN BlockToJSON(instance.props)
              /\ BlockToJSON(instance.props)[k] = last.data[k]

----------------------------------------------------------------------------
(* The caller keeps the Block that addBlock or insertBlock returned and calls
   update() on it. *)

AliasNext ==
    \/ \E data \in BlockDataArgs : AddBlock(data)
    \/ \E data \in BlockDataArgs, position \in PositionArgs : InsertBlock(data, position)
    \/ \E updates \in BlockUpdateArgs : InstanceUpdate(updates)

AliasSpec == Init /\ [][AliasNext]_vars

(* C16: update() on the Block instance that addBlock or insertBlock returned
   changes no entry of article.blocks. *)
C16_ReturnedBlockIsNotStored ==
    last.op = "Block.update" => article = pre

C16_Witness ==
    /\ last.op = "Block.update"
    /\ instance.props["content"] = Str("new")
    /\ instance.before["content"] = Str("hi")
    /\ article = pre
    /\ \E i \in 1..Len(article.blocks) :
          /\ article.blocks[i]["id"] = instance.props["id"]
          /\ article.blocks[i]["content"] = Str("hi")

----------------------------------------------------------------------------
(* A document built with no blocks, then filled with addBlock one call after
   the other until a call throws; given records the data of the calls. *)

CtorInit ==
    \E title \in TitleArgs, metadata \in MetadataArgs :
        LET d == DocConstruct(title, metadata, UNDEF)
        IN  /\ article = d.article
            /\ pre = d.article
            /\ last = Call("constructor", UNDEF, EmptyObj, 0, d.result)
            /\ instance = NoInstance
            /\ given = <<>>

AddNext(data) ==
    /\ IsRet(last.result)
    /\ AddBlockCall(data)
    /\ given' = Append(given, data)

CtorNext == \E data \in BlockDataArgs : AddNext(data)

CtorSpec == CtorInit /\ [][CtorNext]_vars

(* C17: new BlockDocDocument({title, metadata, blocks: [b1..bn]}) yields the
   article that the empty document has after addBlock(b1), ..., addBlock(bn),
   or fails with the error of the first of these calls that fails. *)
C17_InitialBlocksGoThroughAddBlock ==
    LET d == DocConstruct(article.title, article.metadata, <<"arr", given>>)
    IN  IF IsThrow(last.result) THEN d.result = last.result
        ELSE IsRet(d.result) /\ d.article = article

C17_Witness ==
    /\ Len(given) = 3
    /\ last.result = Throw("DuplicateIdError", "")
    /\ Get(given[3], "id") = Get(given[1], "id")
    /\ Len(article.blocks) = 2

----------------------------------------------------------------------------
(* Loading persisted documents: fromJSON on a JSON string or on an object, with
   and without the article key, with well-formed and malformed block lists. *)

PersistedBlocksArgs ==
    UNION {[1..n -> BlockDataArgs] : n \in 0..MaxBlocks}

PersistedArticleArgs ==
    { Spread(Spread([title |-> Str("T")], m), b) :
        m \in Pick("metadata", {NULL, Obj([author |-> Str("A")])}),
        b \in Pick("blocks", {<<"arr", bs>> : bs \in PersistedBlocksArgs}) }

PersistedValueArgs ==
    {EmptyObj, [notAnArticle |-> Obj(EmptyObj)]}
      \cup {[article |-> Obj(a)] : a \in PersistedArticleArgs}

\* the value as a JSON string and as an object
FromJSONArgs ==
    {<<"json", v>> : v \in PersistedValueArgs} \cup {Obj(v) : v \in PersistedValueArgs}

LoadInit ==
    /\ article = EmptyArticle
    /\ pre = EmptyArticle
    /\ instance = NoInstance
    /\ given = <<>>
    /\ \E json \in FromJSONArgs : last = Call("json", UNDEF, [json |-> json], 0, Ret(UNDEF))

\* BlockDocDocument.fromJSON(json): the new document, or none when it throws
FromJSONCall ==
    /\ last.op = "json"
    /\ LET d == FromJSON(last.data["json"])
       IN  /\ article' = IF IsThrow(d.result) THEN article ELSE d.article
           /\ last' = Call("fromJSON", UNDEF, last.data, 0, d.result)
    /\ UNCHANGED <<pre, instance, given>>

LoadNext == FromJSONCall

LoadSpec == LoadInit /\ [][LoadNext]_vars

\* the first block that fails Block construction or repeats the id of an earlier one
Offending(bs) ==
    {i \in 1..Len(bs) :
        \/ IsThrow(BlockConstruct(bs[i]))
        \/ \E j \in 1..(i - 1) : Get(bs[j], "id") = Get(bs[i], "id")}

(* C18: fromJSON takes a JSON string or an object. Without an article key it
   fails with the missing-article error. With an article it passes every
   persisted block through addBlock: when a block fails Block construction or
   repeats an id the load fails with that block's error and yields no document,
   otherwise the document holds the projection of every block, in order. *)
C18_LoadRevalidatesEveryBlock ==
    last.op = "fromJSON"
        => LET v == last.data["json"][2]
           IN  IF "article" \notin DOMAIN v
               THEN last.result = Throw("MissingArticleError", "") /\ article = pre
               ELSE    LET a == v["article"][2]
                           bs == IF "blocks" \in DOMAIN a THEN a["blocks"][2] ELSE <<>>
                           bad == Offending(bs)
                       IN  IF bad # {}
                           THEN /\ article = pre
                                /\ last.result =
                                     IF IsThrow(BlockConstruct(bs[Min(bad)]))
                                        /\ \A j \in 1..(Min(bad) - 1) :
                                              Get(bs[j], "id") # Get(bs[Min(bad)], "id")
                                     THEN BlockConstruct(bs[Min(bad)])
                                     ELSE Throw("DuplicateIdError", "")
                           ELSE /\ IsRet(last.result)
                                /\ article.title = a["title"]
                                /\ Len(article.blocks) = Len(bs)
                                /\ \A i \in 1..Len(bs) :
                                      article.blocks[i] = BlockToJSON(BlockConstruct(bs[i])[2][2])

C18_Witness ==
    /\ last.op = "fromJSON"
    /\ last.data["json"][1] = "json"
    /\ last.result = Throw("DuplicateIdError", "")
    /\ article = EmptyArticle
    /\ Len(last.data["json"][2]["article"][2]["blocks"][2]) = 2

----------------------------------------------------------------------------
(* Strings of the renderers. A string is the sequence of its pieces: each of
   & < > " ' and the line break is a piece of its own, any other run of
   characters is one piece; in a url each of : / ? = # is a piece of its own
   as well. *)

\* the pieces of the strings that hold one of the special characters, and of the urls
Chars(s) ==
    CASE s = "" -> <<>>
      [] s = "x\"y" -> <<"x", "\"", "y">>
      [] s = "A&B" -> <<"A", "&", "B">>
      [] s = "<b>" -> <<"<", "b", ">">>
      [] s = "it's" -> <<"it", "'", "s">>
      [] s = "&amp;" -> <<"&", "amp;">>
      [] s = "https://youtu.be/abc" -> <<"https", ":", "/", "/", "youtu.be", "/", "abc">>
      [] s = "https://youtu.be/" -> <<"https", ":", "/", "/", "youtu.be", "/">>
      [] s = "HTTPS://YOUTU.BE/abc" -> <<"HTTPS", ":", "/", "/", "YOUTU.BE", "/", "abc">>
      [] s = "https://youtu.be/x\"y" -> <<"https", ":", "/", "/", "youtu.be", "/", "x", "\"", "y">>
      [] s = "https://www.youtube.com/watch?v=abc" ->
           <<"https", ":", "/", "/", "www.youtube.com", "/", "watch", "?", "v", "=", "abc">>
      [] s = "https://youtube.com/watch?t=1&v=abc" ->
           <<"https", ":", "/", "/", "youtube.com", "/", "watch", "?", "t", "=", "1", "&", "v", "=", "abc">>
      [] s = "https://youtube.com/watch?v=x\"y" ->
           <<"https", ":", "/", "/", "youtube.com", "/", "watch", "?", "v", "=", "x", "\"", "y">>
      [] s = "https://youtube.com/watch" -> <<"https", ":", "/", "/", "youtube.com", "/", "watch">>
      [] s = "https://example.com/e" -> <<"https", ":", "/", "/", "example.com", "/", "e">>
      [] s = "HTTP://EXAMPLE.COM/e" -> <<"HTTP", ":", "/", "/", "EXAMPLE.COM", "/", "e">>
      [] s = "http://example.com/e" -> <<"http", ":", "/", "/", "example.com", "/", "e">>
      [] s = "//example.com/x" -> <<"/", "/", "example.com", "/", "x">>
      [] s = "//example.com:8080/x" -> <<"/", "/", "example.com", ":", "8080", "/", "x">>
      [] s = "/a/b" -> <<"/", "a", "/", "b">>
      [] s = "javascript:alert(1)" -> <<"javascript", ":", "alert(1)">>
      [] s = "data:text/html,x" -> <<"data", ":", "text", "/", "html,x">>
      [] s = "ftp://example.com/e" -> <<"ftp", ":", "/", "/", "example.com", "/", "e">>
      [] OTHER -> <<s>>

\* a piece in lower case
Lower(c) ==
    CASE c = "HTTP" -> "http"
      [] c = "HTTPS" -> "https"
      [] c = "YOUTU.BE" -> "youtu.be"
      [] c = "EXAMPLE.COM" -> "example.com"
      [] OTHER -> c

NumStr(n) ==
    CASE n = 0 -> "0" [] n = 1 -> "1" [] n = 2 -> "2" [] n = 3 -> "3" [] n = 4 -> "4"
      [] n = 5 -> "5" [] n = 6 -> "6" [] n = 7 -> "7" [] n = 8 -> "8" [] n = 9 -> "9"
      [] n = 0 - 1 -> "-1"

RECURSIVE Join(_, _)
\* list.join(sep)
Join(list, sep) ==
    IF list = <<>> THEN <<>>
    ELSE IF Len(list) = 1 THEN list[1]
    ELSE list[1] \o sep \o Join(Tail(list), sep)

\* String(v), as a template literal interpolates v
ToStr(v) ==
    IF v = UNDEF THEN <<"undefined">>
    ELSE IF v = NULL THEN <<"null">>
    ELSE IF v[1] = "str" THEN Chars(v[2])
    ELSE IF v[1] = "chars" THEN v[2]
    ELSE IF v[1] = "num" THEN <<NumStr(v[2])>>
    ELSE IF v[1] = "bool" THEN (IF v[2] THEN <<"true">> ELSE <<"false">>)
    ELSE IF v[1] = "arr" THEN Join([i \in 1..Len(v[2]) |-> Chars(v[2][i][2])], <<",">>)
    ELSE <<"[object Object]">>

\* the map of sanitizeHtml
EscapeChar(c) ==
    CASE c = "&" -> <<"&", "amp;">>
      [] c = "<" -> <<"&", "lt;">>
      [] c = ">" -> <<"&", "gt;">>
      [] c = "\"" -> <<"&", "quot;">>
      [] c = "'" -> <<"&", "#039;">>
      [] OTHER -> <<c>>

\* sanitizeHtml leaving the apostrophe as it is
SanitizeHtml_KeepsApostrophe(html) ==
    IF Falsy(html) THEN <<>>
    ELSE LET s == ToStr(html)
         IN  Join([i \in 1..Len(s) |-> IF s[i] = "'" THEN <<s[i]>> ELSE EscapeChar(s[i])], <<>>)

\* sanitizeHtml leaving the & of an entity that is already there as it is
SanitizeHtml_SkipsEntities(html) ==
    IF Falsy(html) THEN <<>>
    ELSE LET s == ToStr(html)
             entity(i) == /\ s[i] = "&"
                          /\ i < Len(s)
                          /\ s[i + 1] \in {"amp;", "lt;", "gt;", "quot;", "#039;"}
         IN  Join([i \in 1..Len(s) |-> IF entity(i) THEN <<s[i]>> ELSE EscapeChar(s[i])], <<>>)

\* sanitizeHtml(html)
SanitizeHtml(html) ==
    IF Falsy(html) THEN <<>>
    ELSE LET s == ToStr(html)
         IN  Join([i \in 1..Len(s) |-> EscapeChar(s[i])], <<>>)

\* a string value, on which match, startsWith and includes can be called
IsString(v) == v # UNDEF /\ v # NULL /\ v[1] \in {"str", "chars"}

\* /^https?:\/\//i matches s
MatchesHttp(s) ==
    /\ Len(s) >= 4
    /\ Lower(s[1]) \in {"http", "https"}
    /\ s[2] = ":" /\ s[3] = "/" /\ s[4] = "/"

\* sanitizeUrl rejecting javascript: only
SanitizeUrl_Blacklist(url) ==
    IF Falsy(url) THEN Ret(Str(""))
    ELSE IF ~IsString(url) THEN Throw("TypeError", "url.match is not a function")
    ELSE LET s == ToStr(url)
         IN  IF MatchesHttp(s) THEN Ret(url)
             ELSE IF Len(s) >= 2 /\ s[1] = "/" /\ s[2] = "/" THEN Ret(StrOf(<<"https", ":">> \o s))
             ELSE IF Len(s) >= 2 /\ Lower(s[1]) = "javascript" /\ s[2] = ":" THEN Ret(Str(""))
             ELSE Ret(url)

\* sanitizeUrl(url)
SanitizeUrl(url) ==
    IF Falsy(url) THEN Ret(Str(""))
    ELSE IF ~IsString(url) THEN Throw("TypeError", "url.match is not a function")
    ELSE LET s == ToStr(url)
         IN  IF MatchesHttp(s) THEN Ret(url)
             ELSE IF Len(s) >= 2 /\ s[1] = "/" /\ s[2] = "/" THEN Ret(StrOf(<<"https", ":">> \o s))
             ELSE IF \A k \in 1..Len(s) : s[k] # ":" THEN Ret(url)
             ELSE Ret(Str(""))

(* marked.parse(text) for one paragraph of plain text: the text inside <p>,
   nothing for the empty string; markdown syntax in the text is not interpreted *)
MarkedParse(text) ==
    IF ToStr(text) = <<>> THEN <<>>
    ELSE <<"<", "p", ">">> \o ToStr(text) \o <<"<", "/p", ">", "\n">>

(* hljs.highlight(content).value / hljs.highlightAuto(content).value for text
   in which no syntax is recognised: the text with its special characters
   escaped; on anything but a string the call throws and sanitizeHtml is used *)
HighlightedCode(language, content) ==
    IF content # UNDEF /\ content # NULL /\ content[1] = "str"
    THEN LET s == ToStr(content)
         IN  Join([i \in 1..Len(s) |->
                      IF s[i] = "'" THEN <<"&", "#x27;">> ELSE EscapeChar(s[i])], <<>>)
    ELSE SanitizeHtml(content)

NaN == [nan |-> TRUE, n |-> 0]

\* parseInt(v)
ParseInt(v) ==
    IF v = UNDEF \/ v = NULL THEN NaN
    ELSE IF v[1] = "num" THEN [nan |-> FALSE, n |-> v[2]]
    ELSE IF v = Str("3") THEN [nan |-> FALSE, n |-> 3]
    ELSE NaN

\* the pieces of s from the first on, up to the first piece that is in stops
UpTo(s, stops) ==
    LET hits == {k \in 1..Len(s) : s[k] \in stops}
    IN  IF hits = {} THEN s ELSE SubSeq(s, 1, Min(hits) - 1)

\* the percent-encoding of a piece of a path
EncodePath(c) ==
    CASE c = "\"" -> "%22"
      [] c = "<" -> "%3C"
      [] c = ">" -> "%3E"
      [] OTHER -> c

(* new URL(url): whether the string parses (it starts with a scheme and a colon),
   the hostname in lower case, the pathname and the query string *)
ParseURL(url) ==
    LET s == ToStr(url)
        ok == Len(s) >= 2 /\ s[2] = ":" /\ s[1] \notin {"/", "?", "#", "=", ":"}
        hasHost == Len(s) >= 5 /\ s[3] = "/" /\ s[4] = "/" /\ s[5] \notin {"/", "?", "#"}
        rest == IF hasHost THEN SubSeq(s, 6, Len(s)) ELSE SubSeq(s, 3, Len(s))
        path == UpTo(rest, {"?", "#"})
        afterPath == SubSeq(rest, Len(path) + 1, Len(rest))
    IN  [ok |-> ok,
         hostname |-> IF hasHost THEN Lower(s[5]) ELSE "",
         pathname |-> IF hasHost /\ path = <<>> THEN <<"/">>
                      ELSE [i \in 1..Len(path) |-> EncodePath(path[i])],
         search |-> IF afterPath # <<>> /\ afterPath[1] = "?"
                    THEN UpTo(Tail(afterPath), {"#"}) ELSE <<>>]

\* new URLSearchParams(search).get(name): the decoded value of the first name=value
SearchParamsGet(search, name) ==
    LET at == {k \in 1..(Len(search) - 1) :
                  /\ search[k] = name
                  /\ search[k + 1] = "="
                  /\ (k = 1 \/ search[k - 1] = "&")}
    IN  IF at = {} THEN NULL
        ELSE StrOf(UpTo(SubSeq(search, Min(at) + 2, Len(search)), {"&"}))

\* extractYouTubeId returning the whole pathname for youtu.be, leading slash included
ExtractYouTubeId_KeepsSlash(url) ==
    LET parsedUrl == ParseURL(url)
    IN  IF ~parsedUrl.ok THEN NULL
        ELSE IF parsedUrl.hostname = "youtu.be" THEN StrOf(parsedUrl.pathname)
        ELSE IF parsedUrl.hostname \in {"www.youtube.com", "youtube.com"}
        THEN SearchParamsGet(parsedUrl.search, "v")
        ELSE NULL

\* extractYouTubeId(url)
ExtractYouTubeId(url) ==
    LET parsedUrl == ParseURL(url)
    IN  IF ~parsedUrl.ok THEN NULL
        ELSE IF parsedUrl.hostname = "youtu.be" THEN StrOf(Tail(parsedUrl.pathname))
        ELSE IF parsedUrl.hostname \in {"www.youtube.com", "youtube.com"}
        THEN SearchParamsGet(parsedUrl.search, "v")
        ELSE NULL

----------------------------------------------------------------------------
(* The HTML renderer *)

RenderTextBlock(block) == MarkedParse(Get(block, "content"))

\* renderHeadingBlock clamping at 7 instead of 6
RenderHeadingBlock_UpperSeven(block) ==
    LET p == ParseInt(Get(block, "level"))
        lv == IF p.nan \/ p.n = 0 THEN 2 ELSE p.n
        validLevel == IF lv < 1 THEN 1 ELSE IF lv > 7 THEN 7 ELSE lv
    IN  <<"<", "h">> \o <<NumStr(validLevel)>> \o <<">">>
        \o SanitizeHtml(Get(block, "content")) \o <<"<", "/h">>
        \o <<NumStr(validLevel)>> \o <<">">>

RenderHeadingBlock(block) ==
    LET p == ParseInt(Get(block, "level"))
        lv == IF p.nan \/ p.n = 0 THEN 2 ELSE p.n
        validLevel == IF lv < 1 THEN 1 ELSE IF lv > 6 THEN 6 ELSE lv
    IN  <<"<", "h">> \o <<NumStr(validLevel)>> \o <<">">>
        \o SanitizeHtml(Get(block, "content")) \o <<"<", "/h">>
        \o <<NumStr(validLevel)>> \o <<">">>

RenderImageBlock(block) ==
    LET html == <<"<", "img src=", "\"">> \o SanitizeHtml(Get(block, "url"))
                \o <<"\"", " alt=", "\"">> \o SanitizeHtml(Get(block, "alt"))
                \o <<"\"", " class=", "\"", "blockdoc-image", "\"", " /", ">">>
        caption == Get(block, "caption")
    IN  IF ~Falsy(caption)
        THEN <<"<", "figure class=", "\"", "blockdoc-figure", "\"", ">">> \o html
             \o <<"<", "figcaption class=", "\"", "blockdoc-caption", "\"", ">">>
             \o SanitizeHtml(caption)
             \o <<"<", "/figcaption", ">", "<", "/figure", ">">>
        ELSE html

RenderCodeBlock(block) ==
    LET language == Get(block, "language")
        highlightedCode == HighlightedCode(language, Get(block, "content"))
        cls == IF ~Falsy(language) THEN <<"language-">> \o ToStr(language) ELSE <<>>
    IN  <<"\n", "    ", "<", "pre class=", "\"", "blockdoc-pre", "\"", ">", "\n", "      ", "<", "code class=", "\"", "blockdoc-code ">>
        \o cls \o <<"\"", ">">> \o highlightedCode
        \o <<"<", "/code", ">", "\n", "    ", "<", "/pre", ">", "\n", "  ">>

RenderListBlock(block) ==
    LET items == Get(block, "items")
        listType == Get(block, "listType")
    IN  IF Falsy(items) \/ items[1] # "arr" THEN <<"<", "p", ">", "Invalid list items", "<", "/p", ">">>
        ELSE LET tag == IF listType = Str("ordered") THEN <<"ol">> ELSE <<"ul">>
                 itemsHtml == Join([i \in 1..Len(items[2]) |->
                                      <<"<", "li", ">">> \o MarkedParse(items[2][i])
                                      \o <<"<", "/li", ">">>], <<>>)
             IN  <<"<">> \o tag \o <<" class=", "\"", "blockdoc-list blockdoc-list-">>
                 \o ToStr(listType) \o <<"\"", ">">> \o itemsHtml \o <<"<", "/">> \o tag
                 \o <<">">>

RenderQuoteBlock(block) ==
    LET html == <<"<", "blockquote class=", "\"", "blockdoc-quote", "\"", ">">>
                \o MarkedParse(Get(block, "content")) \o <<"<", "/blockquote", ">">>
        attribution == Get(block, "attribution")
    IN  IF ~Falsy(attribution)
        THEN html \o <<"<", "cite class=", "\"", "blockdoc-attribution", "\"", ">">>
                     \o SanitizeHtml(attribution) \o <<"<", "/cite", ">">>
        ELSE html

RenderEmbedBlock(block) ==
    LET url == Get(block, "url")
        caption == Get(block, "caption")
        embedType == Get(block, "embedType")
        videoId == ExtractYouTubeId(url)
        embedHtml ==
          IF embedType = Str("youtube")
          THEN IF ~Falsy(videoId)
               THEN <<"\n", "        ", "<", "div class=", "\"", "blockdoc-embed-container", "\"", ">", "\n", "          ", "<", "iframe ", "\n", "            width=", "\"", "560", "\"", " ", "\n", "            height=", "\"", "315", "\"", " ", "\n", "            src=", "\"", "https://www.youtube.com/embed/">>
                    \o ToStr(videoId)
                    \o <<"\"", " ", "\n", "            frameborder=", "\"", "0", "\"", " ", "\n", "            allow=", "\"", "accelerometer; autoplay; clipboard-write; encrypted-media; gyroscope; picture-in-picture", "\"", " ", "\n", "            allowfullscreen", ">", "\n", "          ", "<", "/iframe", ">", "\n", "        ", "<", "/div", ">", "\n", "      ">>
               ELSE <<"<", "p", ">", "Invalid YouTube URL", "<", "/p", ">">>
          ELSE IF embedType = Str("twitter")
          THEN <<"\n", "      ", "<", "div class=", "\"", "blockdoc-embed blockdoc-twitter", "\"", ">", "\n", "        ", "<", "blockquote class=", "\"", "twitter-tweet", "\"", ">", "\n", "          ", "<", "a href=", "\"">>
               \o SanitizeHtml(url)
               \o <<"\"", ">", "<", "/a", ">", "\n", "        ", "<", "/blockquote", ">", "\n", "        ", "<", "script async src=", "\"", "https://platform.twitter.com/widgets.js", "\"", " charset=", "\"", "utf-8", "\"", ">", "<", "/script", ">", "\n", "      ", "<", "/div", ">", "\n", "    ">>
          ELSE <<"\n", "      ", "<", "div class=", "\"", "blockdoc-embed", "\"", ">", "\n", "        ", "<", "iframe ", "\n", "          src=", "\"">>
               \o SanitizeHtml(url)
               \o <<"\"", " ", "\n", "          frameborder=", "\"", "0", "\"", " ", "\n", "          width=", "\"", "100%", "\"", " ", "\n", "          height=", "\"", "400", "\"", "\n", "          allowfullscreen", ">", "\n", "        ", "<", "/iframe", ">", "\n", "      ", "<", "/div", ">", "\n", "    ">>
    IN  IF ~Falsy(caption)
        THEN <<"<", "figure class=", "\"", "blockdoc-figure", "\"", ">">> \o embedHtml
             \o <<"<", "figcaption class=", "\"", "blockdoc-caption", "\"", ">">>
             \o SanitizeHtml(caption)
             \o <<"<", "/figcaption", ">", "<", "/figure", ">">>
        ELSE embedHtml

RenderDividerBlock == <<"<", "hr class=", "\"", "blockdoc-divider", "\"", " /", ">">>

\* renderBlock(block)
RenderBlock(block) ==
    LET id == Get(block, "id")
        type == Get(block, "type")
        openWrapper == <<"<", "div class=", "\"", "blockdoc-block blockdoc-">>
                       \o ToStr(type) \o <<"\"", " data-block-id=", "\"">> \o ToStr(id)
                       \o <<"\"", " data-block-type=", "\"">> \o ToStr(type)
                       \o <<"\"", ">">>
        closeWrapper == <<"<", "/div", ">">>
        content ==
          IF type = Str("text") THEN RenderTextBlock(block)
          ELSE IF type = Str("heading") THEN RenderHeadingBlock(block)
          ELSE IF type = Str("image") THEN RenderImageBlock(block)
          ELSE IF type = Str("code") THEN RenderCodeBlock(block)
          ELSE IF type = Str("list") THEN RenderListBlock(block)
          ELSE IF type = Str("quote") THEN RenderQuoteBlock(block)
          ELSE IF type = Str("embed") THEN RenderEmbedBlock(block)
          ELSE IF type = Str("divider") THEN RenderDividerBlock
          ELSE <<"<", "p", ">", "Unknown block type: ">> \o ToStr(type)
               \o <<"<", "/p", ">">>
    IN  openWrapper \o content \o closeWrapper

\* renderToHTML that refuses an article holding a block of a type it does not know
RenderToHTML_Strict(a) ==
    IF "blocks" \notin DOMAIN a THEN Throw("InvalidArticleError", "")
    ELSE IF \E i \in 1..Len(a.blocks) : Get(a.blocks[i], "type") \notin {Str(t) : t \in ALLOWED_TYPES}
    THEN Throw("UnknownBlockTypeError", "")
    ELSE Ret(Join(<< <<"<", "article class=", "\"", "blockdoc-article", "\"", ">">>,
                     <<"<", "h1 class=", "\"", "blockdoc-title", "\"", ">">>
                       \o SanitizeHtml(a.title) \o <<"<", "/h1", ">">> >>
                    \o [i \in 1..Len(a.blocks) |-> RenderBlock(a.blocks[i])]
                    \o << <<"<", "/article", ">">> >>,
                  <<"\n">>))

\* renderToHTML(article): the string, or the error for an article without blocks
RenderToHTML(a) ==
    IF "blocks" \notin DOMAIN a THEN Throw("InvalidArticleError", "")
    ELSE Ret(Join(<< <<"<", "article class=", "\"", "blockdoc-article", "\"", ">">>,
                     <<"<", "h1 class=", "\"", "blockdoc-title", "\"", ">">>
                     \o SanitizeHtml(a.title) \o <<"<", "/h1", ">">> >>
                    \o [i \in 1..Len(a.blocks) |-> RenderBlock(a.blocks[i])]
                    \o << <<"<", "/article", ">">> >>,
                  <<"\n">>))

----------------------------------------------------------------------------
(* The Markdown renderer *)

\* new Date(v).toDateString(), left uninterpreted
DateString(v) == <<"Date(">> \o ToStr(v) \o <<").toDateString()">>

RenderTextBlockToMarkdown(block) == ToStr(Get(block, "content"))

\* renderHeadingBlockToMarkdown defaulting to 2 only when parseInt fails, not on 0
RenderHeadingBlockToMarkdown_ZeroClamped(block) ==
    LET p == ParseInt(Get(block, "level"))
        lv == IF p.nan THEN 2 ELSE p.n
        validLevel == IF lv < 1 THEN 1 ELSE IF lv > 6 THEN 6 ELSE lv
        hashtags == [i \in 1..validLevel |-> "#"]
    IN  hashtags \o <<" ">> \o ToStr(Get(block, "content"))

RenderHeadingBlockToMarkdown(block) ==
    LET p == ParseInt(Get(block, "level"))
        lv == IF p.nan \/ p.n = 0 THEN 2 ELSE p.n
        validLevel == IF lv < 1 THEN 1 ELSE IF lv > 6 THEN 6 ELSE lv
        hashtags == [i \in 1..validLevel |-> "#"]
    IN  hashtags \o <<" ">> \o ToStr(Get(block, "content"))

RenderImageBlockToMarkdown(block) ==
    LET alt == Get(block, "alt")
        caption == Get(block, "caption")
        markdown == <<"![">> \o (IF Falsy(alt) THEN <<>> ELSE ToStr(alt)) \o <<"](">>
                    \o ToStr(Get(block, "url")) \o <<")">>
    IN  IF ~Falsy(caption) THEN markdown \o <<"\n", "*">> \o ToStr(caption) \o <<"*">>
        ELSE markdown

\* the code fence of Markdown, three backquotes
Fence == "[three backquotes]"

RenderCodeBlockToMarkdown(block) ==
    LET language == Get(block, "language")
    IN  <<Fence>> \o (IF Falsy(language) THEN <<>> ELSE ToStr(language)) \o <<"\n">>
        \o ToStr(Get(block, "content")) \o <<"\n", Fence>>

RenderListBlockToMarkdown(block) ==
    LET items == Get(block, "items")
        listType == Get(block, "listType")
    IN  IF Falsy(items) \/ items[1] # "arr" THEN <<"[Invalid list items]">>
        ELSE Join([index \in 1..Len(items[2]) |->
                     IF listType = Str("ordered")
                     THEN <<NumStr(index), ". ">> \o ToStr(items[2][index])
                     ELSE <<"- ">> \o ToStr(items[2][index])],
                  <<"\n">>)

\* content.split('\n').map(line => '> ' + line).join('\n')
QuoteLines(s) ==
    <<"> ">> \o Join([i \in 1..Len(s) |-> IF s[i] = "\n" THEN <<"\n", "> ">> ELSE <<s[i]>>], <<>>)

RenderQuoteBlockToMarkdown(block) ==
    LET markdown == QuoteLines(ToStr(Get(block, "content")))
        attribution == Get(block, "attribution")
    IN  IF ~Falsy(attribution)
        THEN markdown \o <<"\n", ">", "\n", ">", "  ">> \o ToStr(attribution)
        ELSE markdown

RenderEmbedBlockToMarkdown(block) ==
    LET url == Get(block, "url")
        caption == Get(block, "caption")
        embedType == Get(block, "embedType")
        markdown == <<"[">> \o (IF Falsy(embedType) THEN <<"Embedded content">> ELSE ToStr(embedType))
                    \o <<": ">> \o ToStr(url) \o <<"](">> \o ToStr(url) \o <<")">>
    IN  IF ~Falsy(caption) THEN markdown \o <<"\n", "*">> \o ToStr(caption) \o <<"*">>
        ELSE markdown

\* renderBlockToMarkdown(block)
RenderBlockToMarkdown(block) ==
    LET type == Get(block, "type")
    IN  IF type = Str("text") THEN RenderTextBlockToMarkdown(block)
        ELSE IF type = Str("heading") THEN RenderHeadingBlockToMarkdown(block)
        ELSE IF type = Str("image") THEN RenderImageBlockToMarkdown(block)
        ELSE IF type = Str("code") THEN RenderCodeBlockToMarkdown(block)
        ELSE IF type = Str("list") THEN RenderListBlockToMarkdown(block)
        ELSE IF type = Str("quote") THEN RenderQuoteBlockToMarkdown(block)
        ELSE IF type = Str("embed") THEN RenderEmbedBlockToMarkdown(block)
        ELSE IF type = Str("divider") THEN <<"---">>
        ELSE <<"[Unknown block type: ">> \o ToStr(type) \o <<"]">>

\* the metadata lines of renderToMarkdown
MetadataLines(metadata) ==
    IF Falsy(metadata) THEN <<>>
    ELSE LET md == metadata[2]
             author == Get(md, "author")
             publishedDate == Get(md, "publishedDate")
             tags == Get(md, "tags")
         IN  (IF ~Falsy(author) THEN << <<"> ", "Author: ">> \o ToStr(author) >> ELSE <<>>)
               \o (IF ~Falsy(publishedDate)
                   THEN << <<"> ", "Published: ">> \o DateString(publishedDate) >> ELSE <<>>)
               \o (IF ~Falsy(tags) /\ tags[1] = "arr" /\ Len(tags[2]) > 0
                   THEN << <<"> ", "Tags: ">>
                           \o Join([i \in 1..Len(tags[2]) |-> ToStr(tags[2][i])], <<", ">>) >>
                   ELSE <<>>)
               \o << <<>> >>

RECURSIVE BlockLines(_)
\* for each block its rendering and an empty line
BlockLines(blocks) ==
    IF blocks = <<>> THEN <<>>
    ELSE << RenderBlockToMarkdown(Head(blocks)), <<>> >> \o BlockLines(Tail(blocks))

\* renderToMarkdown(article): the string, or the error for an article without blocks
RenderToMarkdown(a) ==
    IF "blocks" \notin DOMAIN a THEN Throw("InvalidArticleError", "")
    ELSE Ret(Join(<< <<"# ">> \o ToStr(a.title), <<>> >>
                    \o MetadataLines(a.metadata)
                    \o BlockLines(a.blocks),
                  <<"\n">>))

----------------------------------------------------------------------------
(* Rendering: renderToHTML and renderToMarkdown applied to articles, those a
   document can hold and those only a caller of the exported functions can
   pass (a block of an unknown type, no blocks at all). *)

MaxRender == 2

RenderBlockArgs ==
    { TextData(Str("a")),
      HeadingData(Str("b")),
      [id |-> Str("c"), type |-> Str("image"), content |-> Str(""),
       url |-> Str("https://example.com/e"), alt |-> Str("t"), caption |-> Str("cap")],
      [id |-> Str("a"), type |-> Str("code"), content |-> Str("hi"), language |-> Str("js")],
      [id |-> Str("b"), type |-> Str("list"), content |-> Str(""),
       items |-> ItemsArg, listType |-> Str("ordered")],
      [id |-> Str("c"), type |-> Str("quote"), content |-> Str("hi"), attribution |-> Str("A&B")],
      [id |-> Str("a"), type |-> Str("embed"), content |-> Str(""),
       url |-> Str("https://youtu.be/abc"), embedType |-> Str("youtube")],
      [id |-> Str("b"), type |-> Str("divider"), content |-> Str("")],
      [id |-> Str("c"), type |-> Str("video"), content |-> Str("hi")],
      [id |-> Str("a"), content |-> Str("hi")],
      [id |-> Str("x\"y"), type |-> Str("text"), content |-> Str("hi")] }

RenderMetadataArgs ==
    { Obj(EmptyObj),
      Obj([author |-> Str("A"), publishedDate |-> Str("2025-01-01"),
           tags |-> <<"arr", <<Str("t1"), Str("t2")>>>>]) }

RenderArticleArgs ==
    { [title |-> t, metadata |-> m, blocks |-> bs] :
        t \in {Str("T"), Str("A&B")}, m \in RenderMetadataArgs,
        bs \in UNION {[1..n -> RenderBlockArgs] : n \in 0..MaxRender} }
      \cup { [title |-> Str("T"), metadata |-> m] : m \in RenderMetadataArgs }

RenderInit ==
    /\ article \in RenderArticleArgs
    /\ pre = article
    /\ last = Call("article", UNDEF, EmptyObj, 0, Ret(UNDEF))
    /\ instance = NoInstance
    /\ given = <<>>

\* document.renderToHTML()
RenderToHTMLCall ==
    /\ last' = Call("renderToHTML", UNDEF, EmptyObj, 0, RenderToHTML(article))
    /\ pre' = article
    /\ UNCHANGED <<article, instance, given>>

\* document.renderToMarkdown()
RenderToMarkdownCall ==
    /\ last' = Call("renderToMarkdown", UNDEF, EmptyObj, 0, RenderToMarkdown(article))
    /\ pre' = article
    /\ UNCHANGED <<article, instance, given>>

RenderNext ==
    \/ RenderToHTMLCall
    \/ RenderToMarkdownCall

RenderSpec == RenderInit /\ [][RenderNext]_vars

----------------------------------------------------------------------------
(* Claims about rendering *)

\* needle occurs in hay as a run of consecutive pieces
Contains(hay, needle) ==
    \E k \in 0..(Len(hay) - Len(needle)) : SubSeq(hay, k + 1, k + Len(needle)) = needle

HasBlocks == "blocks" \in DOMAIN article

UnknownType(block) == Get(block, "type") \notin {Str(t) : t \in EightTypes}

(* C19: an article with blocks of unrecognised types is rendered all the same:
   renderToMarkdown writes [Unknown block type: T] and renderToHTML writes
   <p>Unknown block type: T</p> for each such block, and the rendering of every
   other block of the article is in the output. *)
C19_UnknownTypeDoesNotAbort ==
    /\ (last.op = "renderToHTML" /\ HasBlocks)
          => /\ IsRet(last.result)
             /\ \A i \in 1..Len(article.blocks) :
                   LET b == article.blocks[i]
                   IN  IF UnknownType(b)
                       THEN Contains(last.result[2],
                                     <<"<", "p", ">", "Unknown block type: ">>
                                       \o ToStr(Get(b, "type")) \o <<"<", "/p", ">">>)
                       ELSE Contains(last.result[2], RenderBlock(b))
    /\ (last.op = "renderToMarkdown" /\ HasBlocks)
          => /\ IsRet(last.result)
             /\ \A i \in 1..Len(article.blocks) :
                   LET b == article.blocks[i]
                   IN  IF UnknownType(b)
                       THEN Contains(last.result[2],
                                     <<"[Unknown block type: ">> \o ToStr(Get(b, "type")) \o <<"]">>)
                       ELSE Contains(last.result[2], RenderBlockToMarkdown(b))

C19_Witness ==
    /\ last.op = "renderToHTML"
    /\ HasBlocks
    /\ Len(article.blocks) = 2
    /\ Get(article.blocks[1], "type") = Str("video")
    /\ Get(article.blocks[2], "type") = Str("list")
    /\ IsRet(last.result)
    /\ Contains(last.result[2], <<"<", "p", ">", "Unknown block type: ", "video", "<", "/p", ">">>)
    /\ Contains(last.result[2], <<"<", "li", ">", "<", "p", ">", "x", "<", "/p", ">">>)

\* the i-th smallest member of a set of numbers
Nth(S, i) == CHOOSE x \in S : Cardinality({y \in S : y < x}) = i - 1

(* the values an HTML parser reads for the attribute: from the quote after
   name= up to the next quote, in the order they occur *)
AttrValues(out, name) ==
    LET starts == {k \in 1..(Len(out) - 2) : out[k] = name /\ out[k + 1] = "\""}
        close(k) == Min({j \in (k + 2)..Len(out) : out[j] = "\""})
    IN  [i \in 1..Cardinality(starts) |->
            SubSeq(out, Nth(starts, i) + 2, close(Nth(starts, i)) - 1)]

\* every block of the article is one a document accepts
DocumentBlocks == \A i \in 1..Len(article.blocks) : IsRet(BlockConstruct(article.blocks[i]))

(* C20: renderToHTML writes the opening tag, the title, one wrapper per block
   in the order of article.blocks and the closing tag, so the data-block-id
   values (and the data-block-type values) read from the output are the ids
   (and types) of article.blocks in order; renderToMarkdown ends with the
   renderings of the blocks in that order. *)
C20_RenderOrderIsBlockOrder ==
    /\ (last.op = "renderToHTML" /\ HasBlocks /\ DocumentBlocks)
          => LET out == last.result[2]
                 n == Len(article.blocks)
             IN  /\ IsRet(last.result)
                 /\ SubSeq(out, 1, 6) = <<"<", "article class=", "\"", "blockdoc-article", "\"", ">">>
                 /\ SubSeq(out, Len(out) - 2, Len(out)) = <<"<", "/article", ">">>
                 /\ Contains(out, <<"\n", "<", "h1 class=", "\"", "blockdoc-title", "\"", ">">>)
                 /\ AttrValues(out, " data-block-id=")
                      = [i \in 1..n |-> ToStr(article.blocks[i]["id"])]
                 /\ AttrValues(out, " data-block-type=")
                      = [i \in 1..n |-> ToStr(article.blocks[i]["type"])]
    /\ (last.op = "renderToMarkdown" /\ HasBlocks /\ DocumentBlocks)
          => LET out == last.result[2]
                 tail == Join(BlockLines(article.blocks), <<"\n">>)
             IN  /\ IsRet(last.result)
                 /\ SubSeq(out, Len(out) - Len(tail) + 1, Len(out)) = tail

----------------------------------------------------------------------------
(* Heading levels: an article of one heading block, its level an integer, absent,
   undefined, null or not a number, rendered by both renderers. *)

MaxLevel == 9

LevelParts ==
    Pick("level", {Num(n) : n \in (0 - MaxLevel)..MaxLevel} \cup {UNDEF, NULL, Str("abc")})

HeadingBlockArgs ==
    { Spread([id |-> Str("h"), type |-> Str("heading")], Spread(c, l)) :
        c \in Pick("content", {Str("H"), Str("A&B")}), l \in LevelParts }

HeadingInit ==
    /\ \E b \in HeadingBlockArgs, t \in {Str("T"), Str("A&B")} :
          article = [title |-> t, metadata |-> Obj(EmptyObj), blocks |-> <<b>>]
    /\ pre = article
    /\ last = Call("article", UNDEF, EmptyObj, 0, Ret(UNDEF))
    /\ instance = NoInstance
    /\ given = <<>>

HeadingSpec == HeadingInit /\ [][RenderNext]_vars

\* the level of the heading block is an integer
IntegerLevel == "level" \in DOMAIN article.blocks[1] /\ article.blocks[1]["level"][1] = "num"

\* the numbers N for which the output holds an <hN> tag
HeadingTags(out) == {d \in 0..9 : Contains(out, <<"<", "h", NumStr(d), ">">>)}

\* the count of # pieces in the output
HashCount(out) == Cardinality({k \in 1..Len(out) : out[k] = "#"})

\* min(max((v or 2), 1), 6)
ClampOrTwo ==
    LET v == IF IntegerLevel THEN article.blocks[1]["level"][2] ELSE 0
        vOr2 == IF v = 0 THEN 2 ELSE v
        atLeast1 == IF vOr2 > 1 THEN vOr2 ELSE 1
    IN  IF atLeast1 < 6 THEN atLeast1 ELSE 6

(* C21: for a heading whose level is the integer v, absent or not a number, the
   HTML tag number and the Markdown # count are both min(max((v or 2), 1), 6),
   (v or 2) being 2 for 0, absent or not a number: always within 1..6, and the
   same in both renderers. *)
C21_HeadingLevelFormula ==
    /\ last.op = "renderToHTML"
          => (IsRet(last.result) /\ HeadingTags(last.result[2]) = {ClampOrTwo})
    /\ last.op = "renderToMarkdown"
          => (IsRet(last.result) /\ HashCount(last.result[2]) = ClampOrTwo)
    /\ ClampOrTwo \in 1..6

C21_Witness ==
    /\ last.op = "renderToMarkdown"
    /\ Get(article.blocks[1], "level") = Num(0)
    /\ HashCount(last.result[2]) = 2

\* the level the heading renders at, read from the output of either renderer
RenderedLevel ==
    IF last.op = "renderToHTML" THEN HeadingTags(last.result[2])
    ELSE {HashCount(last.result[2])}

Rendered == last.op \in {"renderToHTML", "renderToMarkdown"}

(* C22 as stated: an integer level below 1 renders as level 1, one above 6 as
   level 6, one within 1..6 as itself, and a non-numeric or absent level as 2. *)
C22_ClampBelowOneToOne ==
    Rendered
        => LET v == article.blocks[1]["level"][2]
           IN  IF ~IntegerLevel THEN RenderedLevel = {2}
               ELSE IF v < 1 THEN RenderedLevel = {1}
               ELSE IF v > 6 THEN RenderedLevel = {6}
               ELSE RenderedLevel = {v}

(* C22 amended: a negative integer level renders as level 1, one above 6 as
   level 6, one within 1..6 as itself, and the level 0, a non-numeric or an
   absent level as 2. *)
C22_ClampNegativeToOne ==
    Rendered
        => LET v == article.blocks[1]["level"][2]
           IN  IF ~IntegerLevel THEN RenderedLevel = {2}
               ELSE IF v = 0 THEN RenderedLevel = {2}
               ELSE IF v < 0 THEN RenderedLevel = {1}
               ELSE IF v > 6 THEN RenderedLevel = {6}
               ELSE RenderedLevel = {v}

C22_Witness ==
    /\ last.op = "renderToHTML"
    /\ Get(article.blocks[1], "level") = Num(0 - 2)
    /\ Contains(last.result[2], <<"<", "h", "1", ">">>)

----------------------------------------------------------------------------
(* Embeds and images: an article of one embed or image block, its url one of
   the urls above, rendered by both renderers. *)

UrlArgs ==
    { Str("https://youtu.be/abc"), Str("https://youtu.be/"), Str("HTTPS://YOUTU.BE/abc"),
      Str("https://youtu.be/x\"y"), Str("https://www.youtube.com/watch?v=abc"),
      Str("https://youtube.com/watch?t=1&v=abc"), Str("https://youtube.com/watch?v=x\"y"),
      Str("https://youtube.com/watch"), Str("https://example.com/e"),
      Str("HTTP://EXAMPLE.COM/e"), Str("http://example.com/e"), Str("//example.com/x"),
      Str("//example.com:8080/x"), Str("/a/b"), Str("javascript:alert(1)"),
      Str("data:text/html,x"), Str("ftp://example.com/e"), Str("not a url"), Str(""),
      UNDEF, NULL }

EmbedBlockArgs ==
    { Spread([id |-> Str("e"), type |-> Str("embed"), content |-> Str(""), url |-> u],
             Spread(t, c)) :
        u \in UrlArgs,
        t \in Pick("embedType", {Str("youtube"), Str("twitter"), Str("vimeo")}),
        c \in Pick("caption", {Str("cap")}) }

ImageBlockArgs ==
    { Spread([id |-> Str("i"), type |-> Str("image"), content |-> Str(""), url |-> u,
              alt |-> Str("it's")], c) :
        u \in UrlArgs, c \in Pick("caption", {Str("cap")}) }

UrlInit ==
    /\ \E b \in EmbedBlockArgs \cup ImageBlockArgs :
          article = [title |-> Str("T"), metadata |-> Obj(EmptyObj), blocks |-> <<b>>]
    /\ pre = article
    /\ last = Call("article", UNDEF, EmptyObj, 0, Ret(UNDEF))
    /\ instance = NoInstance
    /\ given = <<>>

UrlSpec == UrlInit /\ [][RenderNext]_vars

InvalidYouTube == <<"<", "p", ">", "Invalid YouTube URL", "<", "/p", ">">>

YouTubeEmbed ==
    /\ last.op = "renderToHTML"
    /\ article.blocks[1]["type"] = Str("embed")
    /\ Get(article.blocks[1], "embedType") = Str("youtube")

\* the video id as the claim reads it off the parsed url, empty when there is none
ClaimedVideoId ==
    LET u == ParseURL(article.blocks[1]["url"])
        v == SearchParamsGet(u.search, "v")
    IN  IF ~u.ok THEN <<>>
        ELSE IF u.hostname = "youtu.be" THEN SubSeq(u.pathname, 2, Len(u.pathname))
        ELSE IF u.hostname = "youtube.com" \/ u.hostname = "www.youtube.com"
        THEN (IF v = NULL THEN <<>> ELSE v[2])
        ELSE <<>>

(* C23: for an embed of embedType youtube the video id is the path without its
   leading slash when the host is youtu.be and the v query parameter when the
   host is youtube.com or www.youtube.com; a non-empty id is rendered as an
   iframe with src="https://www.youtube.com/embed/<id>", and any other host, an
   unparseable url or a missing id as <p>Invalid YouTube URL</p>, without an
   error. *)
C23_YouTubeEmbed ==
    YouTubeEmbed
        => /\ IsRet(last.result)
           /\ IF ClaimedVideoId # <<>>
              THEN /\ Contains(last.result[2],
                               <<"<", "iframe ", "\n", "            width=", "\"", "560", "\"", " ",
                                 "\n", "            height=", "\"", "315", "\"", " ", "\n",
                                 "            src=", "\"", "https://www.youtube.com/embed/">>
                                 \o ClaimedVideoId \o <<"\"", " ", "\n">>)
                   /\ ~Contains(last.result[2], InvalidYouTube)
              ELSE /\ Contains(last.result[2], InvalidYouTube)
                   /\ ~Contains(last.result[2], <<"https://www.youtube.com/embed/">>)

C23_Witness ==
    /\ YouTubeEmbed
    /\ article.blocks[1]["url"] = Str("https://youtube.com/watch?t=1&v=abc")
    /\ Contains(last.result[2],
                <<"            src=", "\"", "https://www.youtube.com/embed/", "abc", "\"">>)

----------------------------------------------------------------------------
(* The sanitizer called on its own: a value is at hand, sanitizeHtml and
   sanitizeUrl are called on it, and again on what they returned.
   given = <<the value, the argument of the last call>>, last.pos counts the
   applications. *)

MaxPieces == 3
MaxPasses == 2

SanitizePieces == {"&", "<", ">", "\"", "'", "a", "amp;"}

TextArgs ==
    { StrOf(s) : s \in UNION { [1..n -> SanitizePieces] : n \in 0..MaxPieces } }
        \cup {Str(""), Str("it's"), UNDEF, NULL, Num(0), Num(5), Bool(TRUE), Bool(FALSE)}

SanitizeUrlArgs == UrlArgs \cup {Num(0), Num(5), Bool(TRUE), Bool(FALSE)}

SanitizeInit ==
    /\ article = EmptyArticle
    /\ pre = EmptyArticle
    /\ instance = NoInstance
    /\ \E v \in TextArgs \cup SanitizeUrlArgs : given = <<v, v>>
    /\ last = Call("value", UNDEF, EmptyObj, 0, Ret(UNDEF))

\* sanitizeHtml(v), v the first value
SanitizeHtmlCall ==
    /\ given' = <<given[1], given[1]>>
    /\ last' = Call("sanitizeHtml", UNDEF, EmptyObj, 1, Ret(StrOf(SanitizeHtml(given[1]))))
    /\ UNCHANGED <<article, pre, instance>>

\* sanitizeHtml(r), r what the last sanitizeHtml returned
SanitizeHtmlAgain ==
    /\ last.op = "sanitizeHtml"
    /\ last.pos < MaxPasses
    /\ given' = <<given[1], last.result[2]>>
    /\ last' = Call("sanitizeHtml", UNDEF, EmptyObj, last.pos + 1,
                    Ret(StrOf(SanitizeHtml(last.result[2]))))
    /\ UNCHANGED <<article, pre, instance>>

\* sanitizeUrl(v), v the first value
SanitizeUrlCall ==
    /\ given' = <<given[1], given[1]>>
    /\ last' = Call("sanitizeUrl", UNDEF, EmptyObj, 1, SanitizeUrl(given[1]))
    /\ UNCHANGED <<article, pre, instance>>

\* sanitizeUrl(r), r what the last sanitizeUrl returned
SanitizeUrlAgain ==
    /\ last.op = "sanitizeUrl"
    /\ IsRet(last.result)
    /\ last.pos < MaxPasses
    /\ given' = <<given[1], last.result[2]>>
    /\ last' = Call("sanitizeUrl", UNDEF, EmptyObj, last.pos + 1, SanitizeUrl(last.result[2]))
    /\ UNCHANGED <<article, pre, instance>>

SanitizeNext ==
    \/ SanitizeHtmlCall
    \/ SanitizeHtmlAgain
    \/ SanitizeUrlCall
    \/ SanitizeUrlAgain

SanitizeSpec == SanitizeInit /\ [][SanitizeNext]_vars

Specials == {"&", "<", ">", "\"", "'"}

\* the entity the documentation gives for a character, the character itself otherwise
Entity(c) ==
    IF c = "&" THEN <<"&", "amp;">>
    ELSE IF c = "<" THEN <<"&", "lt;">>
    ELSE IF c = ">" THEN <<"&", "gt;">>
    ELSE IF c = "\"" THEN <<"&", "quot;">>
    ELSE IF c = "'" THEN <<"&", "#039;">>
    ELSE <<c>>

RECURSIVE Replaced(_)
\* s with every one of the five characters replaced by its entity, in place
Replaced(s) == IF s = <<>> THEN <<>> ELSE Entity(Head(s)) \o Replaced(Tail(s))

HasSpecial(s) == \E k \in 1..Len(s) : s[k] \in Specials

(* C24: sanitizeHtml returns '' for a falsy input; otherwise the string form of
   the input with every & < > " ' replaced by &amp; &lt; &gt; &quot; &#039; and
   every other character left in place; so a string without the five characters
   comes back as it is, and the output holds no raw < > " or '. *)
C24_SanitizeHtmlEscapes ==
    last.op = "sanitizeHtml"
        => /\ IsRet(last.result)
           /\ Falsy(given[2]) => last.result[2][2] = <<>>
           /\ ~Falsy(given[2]) => last.result[2][2] = Replaced(ToStr(given[2]))
           /\ (~Falsy(given[2]) /\ ~HasSpecial(ToStr(given[2])))
                 => last.result[2][2] = ToStr(given[2])
           /\ \A k \in 1..Len(last.result[2][2]) :
                 last.result[2][2][k] \notin {"<", ">", "\"", "'"}

C24_Witness ==
    /\ last.op = "sanitizeHtml"
    /\ given[2] = StrOf(<<"<", "a", "'">>)
    /\ last.result[2][2] = <<"&", "lt;", "a", "&", "#039;">>

(* C25 as stated: sanitizeHtml applied to its own output returns that output
   unchanged. *)
C25_SanitizeHtmlIdempotent ==
    (last.op = "sanitizeHtml" /\ last.pos >= 2) => last.result[2] = given[2]

(* C25, amended: sanitizeHtml is one substitution pass over its input, so the &
   of an entity that is already in the input is encoded again: applied to its
   own output it replaces every & of it by &amp;, and returns the output
   unchanged exactly when the output holds no &, that is when the first value
   was falsy or held none of the five characters. *)
C25_SanitizeHtmlSinglePass ==
    (last.op = "sanitizeHtml" /\ last.pos = 2)
        => /\ last.result[2][2] = Replaced(given[2][2])
           /\ last.result[2] = given[2]
                 <=> (Falsy(given[1]) \/ ~HasSpecial(ToStr(given[1])))

C25_Witness ==
    /\ last.op = "sanitizeHtml"
    /\ last.pos = 2
    /\ given[1] = StrOf(<<"&", "amp;">>)
    /\ given[2] = StrOf(<<"&", "amp;", "amp;">>)
    /\ last.result[2][2] = <<"&", "amp;", "amp;", "amp;">>

StartsWithSlashes(s) == Len(s) >= 2 /\ s[1] = "/" /\ s[2] = "/"

HasColon(s) == \E k \in 1..Len(s) : s[k] = ":"

StartsWithHttp(s) ==
    Len(s) >= 4 /\ SubSeq(s, 2, 4) = <<":", "/", "/">>
                /\ s[1] \in {"http", "https", "HTTP", "HTTPS"}

\* a string or a falsy value: what sanitizeUrl is documented to take
UrlLike(v) == Falsy(v) \/ IsString(v)

(* C26: sanitizeUrl is an allow-list: the result is '' for a falsy input and for
   a url with a ':' that starts neither with http:// or https:// nor with //;
   the url itself when it starts with http:// or https:// in any case, or holds
   no ':' and does not start with //; 'https:' + url when it starts with //.
   A non-empty result starts with http://, https:// or holds no ':', and
   sanitizeUrl of a result is that result. *)
C26_SanitizeUrlAllowList ==
    (last.op = "sanitizeUrl" /\ UrlLike(given[2]))
        => LET u == ToStr(given[2])
               r == ToStr(last.result[2])
           IN  /\ IsRet(last.result)
               /\ r \in {<<>>, u, <<"https", ":">> \o u}
               /\ Falsy(given[2]) => r = <<>>
               /\ (~Falsy(given[2]) /\ StartsWithHttp(u)) => r = u
               /\ (~Falsy(given[2]) /\ StartsWithSlashes(u)) => r = <<"https", ":">> \o u
               /\ (~Falsy(given[2]) /\ ~HasColon(u) /\ ~StartsWithSlashes(u)) => r = u
               /\ (HasColon(u) /\ ~StartsWithHttp(u) /\ ~StartsWithSlashes(u)) => r = <<>>
               /\ r # <<>> => (StartsWithHttp(r) \/ ~HasColon(r))
               /\ last.pos >= 2 => r = u

C26_Witness ==
    /\ last.op = "sanitizeUrl"
    /\ last.pos = 2
    /\ given[1] = Str("//example.com:8080/x")
    /\ ToStr(last.result[2]) = <<"https", ":", "/", "/", "example.com", ":", "8080", "/", "x">>

\* http(s), protocol-relative or relative: no scheme other than http and https
SafeUrl(u) == StartsWithHttp(u) \/ StartsWithSlashes(u) \/ ~HasColon(u)

(* C27: every url that renderToHTML writes into an img src, an iframe src or an
   anchor href is http(s), protocol-relative or relative; a url with another
   scheme, javascript: or data: say, is not in the output. *)
C27_RenderedUrlsAreSafe ==
    last.op = "renderToHTML"
        => \A name \in {"img src=", "          src=", "a href="} :
              \A i \in DOMAIN AttrValues(last.result[2], name) :
                  SafeUrl(AttrValues(last.result[2], name)[i])

----------------------------------------------------------------------------
(* Documents whose blocks change type: two ids, data of several types, valid
   and not, and updates that change the type, drop a required field or blank
   the id. *)

TypedIdArgs == {Str("a"), Str("b")}

TypedDataArgs ==
    { TextData(Str("a")), HeadingData(Str("a")), HeadingNoLevelData(Str("a")),
      [id |-> Str("a"), type |-> Str("image"), url |-> Str("/a/b"), alt |-> Str("")],
      [id |-> Str("a"), type |-> Str("video"), content |-> Str("hi")],
      TextData(Str("b")), NoIdData }

TypedUpdateArgs ==
    { [type |-> Str("heading")],
      [type |-> Str("text")],
      [type |-> Str("video")],
      [type |-> Str("code"), language |-> NULL],
      [level |-> UNDEF],
      [id |-> Str("")],
      [type |-> Str("heading"), level |-> Num(0)] }

TypedInit ==
    /\ article = EmptyArticle
    /\ pre = EmptyArticle
    /\ last = Call("constructor", UNDEF, EmptyObj, 0, Ret(UNDEF))
    /\ instance = NoInstance
    /\ given = <<>>

TypedNext ==
    \/ \E data \in TypedDataArgs : AddBlock(data)
    \/ \E data \in TypedDataArgs, position \in {0, 1} : InsertBlock(data, position)
    \/ \E id \in TypedIdArgs, updates \in TypedUpdateArgs : UpdateBlock(id, updates)
    \/ \E id \in TypedIdArgs : RemoveBlock(id)
    \/ \E id \in TypedIdArgs, newPosition \in {0, 1} : MoveBlock(id, newPosition)
    \/ Reload

TypedSpec == TypedInit /\ [][TypedNext]_vars

\* the entry has what construction demands of a block of its type
ConstructionValid(b) ==
    /\ ~Falsy(Get(b, "id"))
    /\ Get(b, "type") \in {Str(t) : t \in EightTypes}
    /\ Get(b, "content") # UNDEF
    /\ \A i \in DOMAIN RequiredFields(Get(b, "type")[2]) :
          Get(b, RequiredFields(Get(b, "type")[2])[i]) # UNDEF

(* C28: after any sequence of Document operations every entry of article.blocks
   has a non-empty id, one of the eight types, a defined content and every
   required field of its current type defined, also after updateBlock changed
   the type or the fields of a block. *)
C28_StoredBlocksValid ==
    \A i \in 1..Len(article.blocks) : ConstructionValid(article.blocks[i])

C28_Witness ==
    /\ last.op = "updateBlock"
    /\ IsRet(last.result)
    /\ \E i \in 1..Len(article.blocks) :
          /\ pre.blocks[i]["type"] = Str("text")
          /\ article.blocks[i]["type"] = Str("heading")
          /\ article.blocks[i]["level"] = Num(0)

(* the attribute opened at out[k] (its name, then the quote) holds no raw < or >
   and is closed by the quote the template writes, the one before follower: no
   quote of the value ends it earlier *)
AttrIntact(out, k, follower) ==
    LET j == Min({i \in (k + 2)..Len(out) : out[i] = "\""})
    IN  /\ \A i \in (k + 2)..(j - 1) : out[i] \notin {"<", ">"}
        /\ j < Len(out)
        /\ out[j + 1] = follower

\* the attributes of the output that hold a value of a block, by the piece that opens them
AttrOpens(out, name, prefix) ==
    {k \in 1..(Len(out) - 2) : out[k] = name /\ out[k + 1] = "\""
                                /\ (prefix = "" \/ out[k + 2] = prefix)}

(* C29: in the output of renderToHTML no value of a block written inside an
   attribute (data-block-id, data-block-type, the class suffixes made of type,
   listType and language, the YouTube iframe src made of the video id) holds an
   unescaped " < or >: every such attribute ends at the quote the template
   closes it with. *)
C29_AttributesEscaped ==
    (last.op = "renderToHTML" /\ IsRet(last.result))
        => LET out == last.result[2]
           IN  /\ \A k \in AttrOpens(out, "div class=", "blockdoc-block blockdoc-") :
                     AttrIntact(out, k, " data-block-id=")
               /\ \A k \in AttrOpens(out, " data-block-id=", "") :
                     AttrIntact(out, k, " data-block-type=")
               /\ \A k \in AttrOpens(out, " data-block-type=", "") : AttrIntact(out, k, ">")
               /\ \A k \in AttrOpens(out, "code class=", "") : AttrIntact(out, k, ">")
               /\ \A k \in AttrOpens(out, " class=", "blockdoc-list blockdoc-list-") :
                     AttrIntact(out, k, ">")
               /\ \A k \in AttrOpens(out, "            src=", "") : AttrIntact(out, k, " ")

----------------------------------------------------------------------------
(* API middleware: createBlockDocApi({ storage }).  The requests POST documents
   and PATCH documents/:id/blocks/:blockId act on options.storage, a plain
   object from document ids to stored documents.  Here given holds the storage,
   pre the storage before the last request and last the request with its
   response; an instant of time n is written <<"iso", n>>, its ISO string. *)

MaxClock == 3

storage == given

ObjectProtoKeys == {"constructor", "toString", "valueOf", "hasOwnProperty"}

\* storage[documentId] on a plain object: own keys first, then the members every object inherits
StorageGet(store, documentId) ==
    IF documentId \in DOMAIN store THEN store[documentId]
    ELSE IF documentId \in ObjectProtoKeys THEN <<"function", documentId>>
    ELSE UNDEF

\* res.status(status).json(body)
Respond(status, body) == <<"response", status, body>>

Request(method, documentId, blockId, body, response) ==
    [op |-> method, id |-> documentId, blockId |-> blockId, data |-> body, pos |-> 0,
     result |-> response]

\* new Date().toISOString(): later than every instant recorded in the storage
Now(store) ==
    LET seen == {store[d][2]["updatedAt"][2] : d \in DOMAIN store}
    IN  IF seen = {} THEN 1 ELSE 1 + CHOOSE n \in seen : \A m \in seen : m <= n

\* handleCreateDocument
HandleCreateDocument(store, document, now, generated) ==
    IF \/ Falsy(document)
       \/ Falsy(Get(document[2], "article"))
       \/ Falsy(Get(document[2]["article"][2], "title"))
    THEN [storage |-> store, response |-> Respond(400, Str("Invalid document format"))]
    ELSE LET id == IF Falsy(Get(document[2], "id")) THEN generated ELSE document[2]["id"]
             storedDocument == Spread(document[2], [id |-> id, createdAt |-> <<"iso", now>>,
                                                    updatedAt |-> <<"iso", now>>])
         IN  [storage |-> Spread(store, [k \in {id[2]} |-> Obj(storedDocument)]),
              response |-> Respond(201, Obj([id |-> id, message |-> Str("Document created")]))]

(* handleUpdateBlock, called by blockDocApiMiddleware inside its try: a
   TypeError thrown by the handler is answered with status 500 *)
HandleUpdateBlock(store, documentId, blockId, updates, now) ==
    LET found == StorageGet(store, documentId)
    IN  IF Falsy(found)
        THEN [storage |-> store, response |-> Respond(404, Str("Document not found"))]
        ELSE IF found[1] = "function" \/ Get(found[2]["article"][2], "blocks") = UNDEF
        THEN [storage |-> store, response |-> Respond(500, Str("TypeError"))]
        ELSE LET document == found[2]
                 blocks == document["article"][2]["blocks"][2]
                 blockIndex == FindIndex(blocks, Str(blockId))
             IN  IF blockIndex = 0 - 1
                 THEN [storage |-> store, response |-> Respond(404, Str("Block not found"))]
                 ELSE IF updates \in {UNDEF, NULL}
                 THEN [storage |-> store, response |-> Respond(500, Str("TypeError"))]
                 ELSE LET block == blocks[blockIndex + 1]
                          allowedUpdates == [k \in (DOMAIN updates[2]) \ {"id", "type"}
                                               |-> updates[2][k]]
                          updatedBlock == Spread(block, allowedUpdates)
                          newArticle == Spread(document["article"][2],
                                               [blocks |-> <<"arr", [blocks EXCEPT
                                                              ![blockIndex + 1] = updatedBlock]>>])
                          newDocument == Spread(document, [article |-> Obj(newArticle),
                                                           updatedAt |-> <<"iso", now>>])
                      IN  [storage |-> Spread(store, [k \in {documentId} |-> Obj(newDocument)]),
                           response |-> Respond(200, Obj(updatedBlock))]

DocumentBodyArgs ==
    { Obj([id |-> Str("d1"),
           article |-> Obj([title |-> Str("T"),
                            blocks |-> <<"arr", <<TextData(Str("a")), HeadingData(Str("b"))>>>>])]),
      Obj([article |-> Obj([title |-> Str("T"),
                            blocks |-> <<"arr", <<TextData(Str("a"))>>>>])]),
      Obj([id |-> Str("d2"), article |-> Obj([title |-> Str("T")])]),
      Obj([id |-> Str("d2"), article |-> Obj([blocks |-> <<"arr", <<>>>>])]),
      UNDEF }

GeneratedIdArgs == {Str("doc_1")}

DocumentIdArgs == {"d1", "d2", "doc_1", "constructor"}

BlockIdArgs == {"a", "b", "z"}

PatchBodyArgs ==
    { Obj([content |-> Str("new")]),
      Obj([id |-> Str("z"), type |-> Str("quote"), content |-> Str("new")]),
      Obj([level |-> Num(3)]),
      UNDEF }

ApiInit ==
    /\ given = EmptyObj
    /\ pre = EmptyObj
    /\ last = Request("none", "", "", UNDEF, Respond(0, UNDEF))
    /\ article = EmptyArticle
    /\ instance = NoInstance

\* POST /api/blockdoc/documents
CreateDocument ==
    /\ Now(storage) <= MaxClock
    /\ \E document \in DocumentBodyArgs, generated \in GeneratedIdArgs :
          LET r == HandleCreateDocument(storage, document, Now(storage), generated)
          IN  /\ given' = r.storage
              /\ last' = Request("POST", "", "", document, r.response)
    /\ pre' = storage
    /\ UNCHANGED <<article, instance>>

\* PATCH /api/blockdoc/documents/:id/blocks/:blockId
UpdateBlockRequest ==
    /\ Now(storage) <= MaxClock
    /\ \E documentId \in DocumentIdArgs, blockId \in BlockIdArgs, updates \in PatchBodyArgs :
          LET r == HandleUpdateBlock(storage, documentId, blockId, updates, Now(storage))
          IN  /\ given' = r.storage
              /\ last' = Request("PATCH", documentId, blockId, updates, r.response)
    /\ pre' = storage
    /\ UNCHANGED <<article, instance>>

ApiNext ==
    \/ CreateDocument
    \/ UpdateBlockRequest

ApiSpec == ApiInit /\ [][ApiNext]_vars

\* the blocks of a stored document, none when it has no blocks array
StoredBlocks(doc) ==
    IF Get(doc[2]["article"][2], "blocks") = UNDEF THEN <<>>
    ELSE doc[2]["article"][2]["blocks"][2]

\* the request named a stored document and a block of it
PatchTarget ==
    /\ last.id \in DOMAIN pre
    /\ \E i \in 1..Len(StoredBlocks(pre[last.id])) :
          Get(StoredBlocks(pre[last.id])[i], "id") = Str(last.blockId)

\* a PATCH that was carried out leaves all but the fields of the target block as it was
PatchFrame ==
    (last.op = "PATCH" /\ last.result[2] = 200)
        => /\ PatchTarget
           /\ DOMAIN storage = DOMAIN pre
           /\ \A d \in (DOMAIN pre) \ {last.id} : storage[d] = pre[d]
           /\ storage[last.id][2]["id"] = pre[last.id][2]["id"]
           /\ storage[last.id][2]["createdAt"] = pre[last.id][2]["createdAt"]
           /\ LET before == StoredBlocks(pre[last.id])
                  after == StoredBlocks(storage[last.id])
                  i == Min({j \in 1..Len(before) : before[j]["id"] = Str(last.blockId)})
              IN  /\ Len(after) = Len(before)
                  /\ after[i]["id"] = before[i]["id"]
                  /\ after[i]["type"] = before[i]["type"]
                  /\ \A j \in (1..Len(before)) \ {i} : after[j] = before[j]

\* a PATCH that names no stored document, or no block of it, is answered 404 and changes nothing
PatchNotFound ==
    (last.op = "PATCH" /\ ~PatchTarget) => (last.result[2] = 404 /\ storage = pre)

(* C30: PATCH documents/:id/blocks/:blockId never changes the id or the type of
   the target block, keeps it at its index and leaves every other block and the
   document's id and createdAt unchanged; when the document or the block does
   not exist the response is 404 and the storage is unchanged. *)
C30_PatchFrameAndNotFound == PatchFrame /\ PatchNotFound

====
